---- MODULE Spec2Model ----
(***************************************************************************)
(* A model of the BrRegister annual-report scraper: the report store       *)
(* (table brreg_annual_reports), its two writers (the batch upsert of      *)
(* scrape-annual-reports.ts and the read-modify-write of scrape-pdf.ts),   *)
(* the scrapePdfForYear pipeline with its temp directory, and the pure     *)
(* helpers (year extraction, URL normalisation, candidate merging,         *)
(* numeral parsing).                                                       *)
(***************************************************************************)
EXTENDS Integers, Sequences, FiniteSets, TLC

(***************************************************************************)
(* Bounds of the model.                                                    *)
(***************************************************************************)
\* Largest value of the database clock NOW().
MaxClock == 1
\* new Date().getFullYear() of the run.
CurrentYear == 2026

(***************************************************************************)
(* Values.                                                                 *)
(***************************************************************************)
\* An optional value (number | null) is a set with at most one element.
Null == {}

Some(v) == {v}

Opt(S) == {Null} \cup {{v} : v \in S}

\* The one organisation of the model, digits only.
Orgnr == "910000001"

\* The years a request or a batch report may name.
Years == {CurrentYear - 1, CurrentYear}

\* The requests to POST /api/scrape-pdf that may run at the same time.
Requests == {"r1", "r2"}

\* The requests that run the whole of scrapePdfForYear.
Scrapers == {"r1"}

\* The amounts a figure may take.
FigureValues == {500000}

FigureNames == {"aarsresultat", "salgsinntekt", "sumInntekter"}

Figures == [FigureNames -> Opt(FigureValues)]

NoFigures == [f \in FigureNames |-> Null]

OnlyAarsresultat(v) == [f \in FigureNames |-> IF f = "aarsresultat" THEN Some(v) ELSE Null]

AnyFigure(fg) == \E f \in FigureNames : fg[f] # Null

(***************************************************************************)
(* The report store: table brreg_annual_reports as a set of rows.  The     *)
(* column data is abstracted to the source tag and the three figures kept  *)
(* under raw.resultatregnskapResultat.                                     *)
(***************************************************************************)
VARIABLES table, now, lastWrite

storeVars == <<table, now, lastWrite>>

\* The requests: the position of each in scrapePdfForYear (pc), its year, the
\* arguments (figs), the progress (dbState), the error (dbError) and the SELECT
\* result (snap) of its call of updateAnnualReportInDatabase.
VARIABLES pc, year, figs, dbState, dbError, snap

callVars == <<year, figs, dbState, dbError, snap>>

\* The temp directory, whether the downloaded PDF is larger than 10000 bytes,
\* and the result each request returns.
VARIABLES tempDir, pdfHasContent, result

\* What each call of scrapePdfForYear has done so far: whether the API payload
\* held an aarsresultat of the year, and the fetches of documents it has sent.
VARIABLE trace

scrapeVars == <<tempDir, pdfHasContent, result, trace>>

\* The arguments and results of the pure helpers: candidate merging (reports,
\* pdfLinks, mergedReports), year extraction (candidate, requestedYear, entryYear), document mapping
\* (rawDocuments, documents), numeral parsing (numeral, parsed), and which
\* helper has run (step).
VARIABLES reports, pdfLinks, mergedReports, candidate, requestedYear, entryYear, rawDocuments, documents,
          numeral, parsed, step

pureVars == <<reports, pdfLinks, mergedReports, candidate, requestedYear, entryYear, rawDocuments, documents,
              numeral, parsed, step>>

\* The text handed to the figure extractor and the figure it returns, and
\* which operation of the pipeline has run (phase).
VARIABLES pdfText, netResult, phase

\* The response body a document retriever is given and what it did with it.
VARIABLES pdfBuffer, retrieval

\* The batch run of main: the upstream of each organisation of the list, the
\* index of the organisation at hand, the position in main and
\* fetchAnnualReports, the browser the call at hand has launched, what
\* fetchAnnualReports did for each organisation, the organisations main has
\* called it for and those whose reports it has stored.
VARIABLES queue, cursor, mainPc, browser, outcome, attempted, stored

batchVars == <<queue, cursor, mainPc, browser, outcome, attempted, stored>>

\* extractFromRegnskapApi: the year of the period each filing carries, the
\* answer of the API to the query without a year and to the query of each
\* year, the position, the year of the loop, the entries, the keys seen and
\* the reports returned.
VARIABLES yearJournalMap, periodOf, latestAnswer, yearAnswer, apiPc, apiYear, entries, seenYearJournalPairs, apiReports

apiVars == <<yearJournalMap, periodOf, latestAnswer, yearAnswer, apiPc, apiYear, entries, seenYearJournalPairs, apiReports>>

\* performOCR: the temp PDFs and the page images in the temp directory (by
\* year), the year and the position of the call at hand, and what the call
\* of each year has returned.
VARIABLES pdfFiles, pngFiles, ocrYear, ocrPc, ocrReturned

ocrVars == <<pdfFiles, pngFiles, ocrYear, ocrPc, ocrReturned>>

\* The company fetch of BrregFetcher: how the upstream answers, the updates
\* it lists, the two files of the data directory, the position in main, the
\* organisation numbers and the page and retry count of the loop at hand,
\* the companies loaded from the file and those fetched, the list, the start
\* and the issued requests of the batch at hand, the time since the start of
\* the last request, and a bit that flips with each request.
VARIABLES upstream, updates, orgFile, companiesFile, fPc, organisasjonsnumre
VARIABLES page, retries, loaded, companies, todo, batchStart, issued
VARIABLES sinceLast, requestTick

fetcherVars == <<upstream, updates, orgFile, companiesFile, fPc, organisasjonsnumre,
                 page, retries, loaded, companies, todo, batchStart, issued,
                 sinceLast, requestTick>>

\* fetchAnnualReports after an empty answer of the API: what each strategy
\* finds on the rendered page and on the page of the plain HTTP fallback, the
\* position, the strategies invoked so far in their order, and the strategy
\* whose candidates were returned.
VARIABLES renderedFinds, staticFinds, strategyPc, tried, returnedFrom

strategyVars == <<renderedFinds, staticFinds, strategyPc, tried, returnedFrom>>

\* fetchRegnskapApiEntries: the answer of the Enhetsregisteret (none when the
\* request fails), the first year the Regnskapsregisteret has an entry for,
\* maxResults, the bounds, the year of the loop, the years asked for in their
\* order, and the number of entries collected.
VARIABLES metadata, firstFiling, maxResults, minYear, maxYear, loopYear, queried, collected, boundsPc

boundsVars == <<metadata, firstFiling, maxResults, minYear, maxYear, loopYear, queried, collected, boundsPc>>

\* Two parsePdfAndExtractAarsresultat calls for one (orgnr, year): the call
\* whose bytes the temp PDF and the page image hold (none when the file does
\* not exist), the position of each call, and the call whose file Ghostscript
\* and worker.recognize of each call have read ("none" before the read,
\* "missing" for a file that was gone).
VARIABLES tempPdf, tempImage, parsePc, gsInput, ocrInput

tempVars == <<tempPdf, tempImage, parsePc, gsInput, ocrInput>>

runVars == <<batchVars, apiVars, ocrVars, fetcherVars, strategyVars, boundsVars, tempVars>>

pipelineVars == <<pdfText, netResult, phase, pdfBuffer, retrieval, runVars>>

vars == <<storeVars, pc, callVars, scrapeVars, pureVars, pipelineVars>>

Row(orgnr, ar, data, ts) ==
    [organisasjonsnummer |-> orgnr, ar |-> ar, data |-> data, scraped_at |-> ts]

\* SELECT ... WHERE organisasjonsnummer = $1 AND ar = $2
RowsFor(t, orgnr, ar) == {r \in t : r.organisasjonsnummer = orgnr /\ r.ar = ar}

\* An upsert that lost its ON CONFLICT clause on a table without the key.
UpsertRows_NoConflict(t, orgnr, ar, data, ts) == t \cup {Row(orgnr, ar, data, ts)}

\* INSERT ... ON CONFLICT (organisasjonsnummer, ar) DO UPDATE
\*   SET data = EXCLUDED.data, scraped_at = NOW()
UpsertRows(t, orgnr, ar, data, ts) ==
    IF RowsFor(t, orgnr, ar) = {}
    THEN t \cup {Row(orgnr, ar, data, ts)}
    ELSE {IF r \in RowsFor(t, orgnr, ar)
          THEN [r EXCEPT !.data = data, !.scraped_at = ts]
          ELSE r : r \in t}

\* The primary key (organisasjonsnummer, ar) rejects a plain INSERT of a present key.
InsertConflicts(t, orgnr, ar) == RowsFor(t, orgnr, ar) # {}

\* INSERT INTO brreg_annual_reports (organisasjonsnummer, ar, data): scraped_at
\* takes its default NOW().
InsertRows(t, orgnr, ar, data, ts) == t \cup {Row(orgnr, ar, data, ts)}

\* UPDATE brreg_annual_reports SET data = $1 WHERE organisasjonsnummer = $2 AND ar = $3
UpdateRows(t, orgnr, ar, data) ==
    {IF r \in RowsFor(t, orgnr, ar) THEN [r EXCEPT !.data = data] ELSE r : r \in t}

\* The payload of a row created by updateAnnualReportInDatabase.
NewData(fg) == [source |-> "pdf-scraped", figures |-> fg]

\* The existing payload with every non-null argument written over its field.
MergeFigures(existingData, fg) ==
    [existingData EXCEPT !.figures =
        [f \in FigureNames |-> IF fg[f] # Null THEN fg[f] ELSE existingData.figures[f]]]

\* The payloads the batch scraper builds from the API.
ApiPayloads == {[source |-> "regnskap-api", figures |-> fg] :
                  fg \in {NoFigures, OnlyAarsresultat(500000)}}

\* The figures a call of updateAnnualReportInDatabase may carry.
RequestFigures ==
    {OnlyAarsresultat(500000),
     [f \in FigureNames |-> IF f = "aarsresultat" THEN Null ELSE Some(500000)]}

\* A record of the statement that has just written to the table, at the present
\* value of the clock: the statement, its key and the rows of that key it found.
NoWrite == [op |-> "none", ar |-> 0, before |-> {}]

Written(op, ar) == [op |-> op, ar |-> ar, before |-> RowsFor(table, Orgnr, ar)]

(***************************************************************************)
(* The requests: each runs scrapePdfForYear and, inside it, calls          *)
(* updateAnnualReportInDatabase.                                           *)
(***************************************************************************)
\* updateAnnualReportInDatabase(orgnr, year, aarsresultat, salgsinntekt, sumInntekter)
\* is entered: the client connects and the SELECT is sent.
BeginUpdate(p, f) ==
    /\ dbState[p] = "idle"
    /\ figs' = [figs EXCEPT ![p] = f]
    /\ dbState' = [dbState EXCEPT ![p] = "select"]
    /\ dbError' = [dbError EXCEPT ![p] = "none"]
    /\ snap' = [snap EXCEPT ![p] = {}]

\* A request for year[p] reaches one of its calls of updateAnnualReportInDatabase
\* with the figures it extracted (at least one of them non-null).
RequestUpdate(p) ==
    /\ pc[p] = "idle"
    /\ \E f \in RequestFigures : BeginUpdate(p, f)
    /\ UNCHANGED <<pc, year, storeVars, scrapeVars, pureVars, pipelineVars>>

\* await client.connect(); await client.query('SELECT data ...'): either throws
\* (the database is unreachable) or answers with the rows of the key.
DbSelect(p) ==
    /\ dbState[p] = "select"
    /\ \/ /\ dbState' = [dbState EXCEPT ![p] = "failed"]
          /\ dbError' = [dbError EXCEPT ![p] = "unavailable"]
          /\ UNCHANGED snap
       \/ /\ snap' = [snap EXCEPT ![p] = {r.data : r \in RowsFor(table, Orgnr, year[p])}]
          /\ dbState' = [dbState EXCEPT ![p] = "write"]
          /\ UNCHANGED dbError
    /\ UNCHANGED <<pc, year, figs, storeVars, scrapeVars, pureVars, pipelineVars>>

\* result.rows.length === 0: INSERT a new row; otherwise UPDATE the row with the
\* payload read by the SELECT and the non-null arguments written into it.
DbWrite(p) ==
    /\ dbState[p] = "write"
    /\ IF snap[p] = {}
       THEN IF InsertConflicts(table, Orgnr, year[p])
            THEN /\ dbState' = [dbState EXCEPT ![p] = "failed"]
                 /\ dbError' = [dbError EXCEPT ![p] = "unique_violation"]
                 /\ UNCHANGED <<table, lastWrite>>
            ELSE /\ table' = InsertRows(table, Orgnr, year[p], NewData(figs[p]), now)
                 /\ lastWrite' = Written("insert", year[p])
                 /\ dbState' = [dbState EXCEPT ![p] = "ok"]
                 /\ UNCHANGED dbError
       ELSE LET existingData == CHOOSE d \in snap[p] : TRUE
                mergedData == MergeFigures(existingData, figs[p])
            IN /\ table' = UpdateRows(table, Orgnr, year[p], mergedData)
               /\ lastWrite' = Written("update", year[p])
               /\ dbState' = [dbState EXCEPT ![p] = "ok"]
               /\ UNCHANGED dbError
    /\ UNCHANGED <<pc, year, figs, snap, now, scrapeVars, pureVars, pipelineVars>>

\* The call has returned or thrown and the request is over.
DbReturn(p) ==
    /\ pc[p] = "idle"
    /\ dbState[p] \in {"ok", "failed"}
    /\ dbState' = [dbState EXCEPT ![p] = "idle"]
    /\ dbError' = [dbError EXCEPT ![p] = "none"]
    /\ figs' = [figs EXCEPT ![p] = NoFigures]
    /\ snap' = [snap EXCEPT ![p] = {}]
    /\ UNCHANGED <<pc, year, storeVars, scrapeVars, pureVars, pipelineVars>>

\* upsertAnnualReport(client, orgnr, report) of the batch scraper's main loop.
UpsertAnnualReport(y, d) ==
    /\ table' = UpsertRows(table, Orgnr, y, d, now)
    /\ lastWrite' = Written("upsert", y)
    /\ UNCHANGED <<now, pc, callVars, scrapeVars, pureVars, pipelineVars>>

BatchUpsert == \E y \in Years, d \in ApiPayloads : UpsertAnnualReport(y, d)

\* The batch scraper stores a report of the year the requests are about.
BatchUpsertSameKey == \E d \in ApiPayloads : UpsertAnnualReport(CurrentYear, d)

\* Time passes on the database clock.
Tick ==
    /\ now < MaxClock
    /\ now' = now + 1
    /\ lastWrite' = NoWrite
    /\ UNCHANGED <<table, pc, callVars, scrapeVars, pureVars, pipelineVars>>

StoreInit ==
    /\ table = {}
    /\ now = 0
    /\ lastWrite = NoWrite

CallInit ==
    /\ pc = [p \in Requests |-> "idle"]
    /\ year = [p \in Requests |-> CurrentYear]
    /\ figs = [p \in Requests |-> NoFigures]
    /\ dbState = [p \in Requests |-> "idle"]
    /\ dbError = [p \in Requests |-> "none"]
    /\ snap = [p \in Requests |-> {}]

(***************************************************************************)
(* scrapePdfForYear and parsePdfAndExtractAarsresultat: the position of    *)
(* each request (pc), the temp directory, and the result returned.         *)
(***************************************************************************)
\* path.join(PDF_TEMP_DIR, `${orgnr}_${year}.pdf`)
TempPdfPath(orgnr, y) == <<orgnr, y, "pdf">>

\* pdfData.length < 1000 rejects the extracted bytes.
MIN_PDF_SIZE == 1000

\* pdfHasContent = pdfData.length > 10000
OCR_PDF_SIZE == 10000

\* The response body handed to parsePdfAndExtractAarsresultat: its length,
\* indexOf('%PDF') and lastIndexOf('%%EOF') (-1 without the marker), and whether
\* its first 500 bytes hold 'error' or 'Server action not found'.
PdfBuffers ==
    {b \in [length : {20, 1000, 1001, 1005, 1010, 12000},
            pdfStart : {-1, 0, 6},
            eofPos : {-1, 0, 994, 995, 1000, 1004, 11990},
            errorText : BOOLEAN] :
        /\ b.pdfStart # -1 => b.pdfStart + 4 <= b.length
        /\ b.eofPos # -1 => b.eofPos + 5 <= b.length
        /\ (b.pdfStart # -1 /\ b.eofPos # -1) =>
              (b.pdfStart + 4 <= b.eofPos \/ b.eofPos + 5 <= b.pdfStart)}

\* pdfBuffer.subarray(pdfStart, eofPos + 6).length: the end is clamped to the
\* length of the buffer, and an end before the start gives no bytes.
PdfDataLength(b) ==
    LET end == IF b.eofPos + 6 > b.length THEN b.length ELSE b.eofPos + 6
    IN IF end > b.pdfStart THEN end - b.pdfStart ELSE 0

\* The checks on the markers and the extracted bytes, in the order of the code:
\* no '%PDF', no '%%EOF', bytes that do not start with '%PDF' or are fewer
\* than 1000.
IsValidPdfData(b) ==
    /\ b.pdfStart # -1
    /\ b.eofPos # -1
    /\ PdfDataLength(b) >= 4
    /\ PdfDataLength(b) >= MIN_PDF_SIZE

\* parsePdfAndExtractAarsresultat first rejects a response with an error text.
IsValidPdf(b) == ~b.errorText /\ IsValidPdfData(b)

\* A call that has not asked the API and has fetched nothing.
NoTrace == [apiFigure |-> FALSE, fetches |-> {}]

NoResult == [figures |-> NoFigures, success |-> FALSE, message |-> "none"]

\* The object scrapePdfForYear returns.
Result(f, s, m) == [figures |-> f, success |-> s, message |-> m]

\* A return statement of scrapePdfForYear with its own success.
ReturnResult(p, f, s, m) ==
    /\ pc' = [pc EXCEPT ![p] = "done"]
    /\ result' = [result EXCEPT ![p] = Result(f, s, m)]

PdfResultSuccess_Always(f) == TRUE

\* success: pdfResult.aarsresultat !== null || pdfResult.salgsinntekt !== null
\*          || pdfResult.sumInntekter !== null
PdfResultSuccess(f) ==
    f["aarsresultat"] # Null \/ f["salgsinntekt"] # Null \/ f["sumInntekter"] # Null

\* A return of parsePdfAndExtractAarsresultat, which scrapePdfForYear returns
\* as { ...pdfResult, success }.
Return(p, f, m) == ReturnResult(p, f, PdfResultSuccess(f), m)

Goto(p, loc) ==
    /\ pc' = [pc EXCEPT ![p] = loc]
    /\ UNCHANGED result

\* updateAnnualReportInDatabase has returned or thrown: finally { client.end() }.
EndUpdate(p) ==
    /\ dbState' = [dbState EXCEPT ![p] = "idle"]
    /\ dbError' = [dbError EXCEPT ![p] = "none"]
    /\ figs' = [figs EXCEPT ![p] = NoFigures]
    /\ snap' = [snap EXCEPT ![p] = {}]

\* POST /api/scrape-pdf with a valid orgnr and year calls scrapePdfForYear.
ScrapePdfForYear(p) ==
    /\ pc[p] = "idle"
    /\ dbState[p] = "idle"
    /\ \E y \in Years : year' = [year EXCEPT ![p] = y]
    /\ Goto(p, "api")
    /\ trace' = [trace EXCEPT ![p] = NoTrace]
    /\ UNCHANGED <<figs, dbState, dbError, snap, storeVars, tempDir, pdfHasContent, pureVars, pipelineVars>>

\* The Regnskapsregisteret API is asked for the year: it yields an aarsresultat
\* of the right year, which is written to the store, or nothing usable (404, an
\* exception, another year, no aarsresultat), and the PDF download is tried.
ApiStage(p) ==
    /\ pc[p] = "api"
    /\ \/ /\ \E v \in FigureValues : BeginUpdate(p, OnlyAarsresultat(v))
          /\ Goto(p, "api_db")
          /\ trace' = [trace EXCEPT ![p].apiFigure = TRUE]
       \/ /\ Goto(p, "alt")
          /\ UNCHANGED <<figs, dbState, dbError, snap, trace>>
    /\ UNCHANGED <<year, storeVars, tempDir, pdfHasContent, pureVars, pipelineVars>>

\* The update of line 83 is over: return the figure, or, when it threw,
\* catch (apiError) and go on with the PDF download.
ApiUpdated(p) ==
    /\ pc[p] = "api_db"
    /\ dbState[p] \in {"ok", "failed"}
    /\ IF dbState[p] = "ok" THEN ReturnResult(p, figs[p], TRUE, "api") ELSE Goto(p, "alt")
    /\ EndUpdate(p)
    /\ UNCHANGED <<year, storeVars, tempDir, pdfHasContent, trace, pureVars, pipelineVars>>

\* GET of the alternative URL: status 200 with more than 1000 bytes is parsed.
AltUrlStage(p) ==
    /\ pc[p] = "alt"
    /\ \/ Goto(p, "parse")
       \/ Goto(p, "action")
    /\ trace' = [trace EXCEPT ![p].fetches = @ \cup {"alternativeUrl"}]
    /\ UNCHANGED <<callVars, storeVars, tempDir, pdfHasContent, pureVars, pipelineVars>>

\* POST of the Next.js Server Action: status 200 with more than 1000 bytes is
\* parsed; otherwise the request fails.
ServerActionStage(p) ==
    /\ pc[p] = "action"
    /\ \/ Goto(p, "parse")
       \/ ReturnResult(p, NoFigures, FALSE, "no_pdf")
    /\ trace' = [trace EXCEPT ![p].fetches = @ \cup {"serverAction"}]
    /\ UNCHANGED <<callVars, storeVars, tempDir, pdfHasContent, pureVars, pipelineVars>>

\* parsePdfAndExtractAarsresultat up to fs.writeFileSync(tempPdfPath, pdfData),
\* on a response of more than 1000 bytes.
ParsePdfAndExtractAarsresultat(p) ==
    /\ pc[p] = "parse"
    /\ \E b \in {x \in PdfBuffers : x.length > 1000} :
          IF IsValidPdf(b)
          THEN /\ tempDir' = tempDir \cup {TempPdfPath(Orgnr, year[p])}
               /\ pdfHasContent' = [pdfHasContent EXCEPT ![p] = (PdfDataLength(b) > OCR_PDF_SIZE)]
               /\ Goto(p, "pdf_parse")
          ELSE /\ Return(p, NoFigures, "invalid_response")
               /\ UNCHANGED <<tempDir, pdfHasContent>>
    /\ trace' = [trace EXCEPT ![p].fetches = @ \cup {"pdfParse"}]
    /\ UNCHANGED <<callVars, storeVars, pureVars, pipelineVars>>

\* pdf(pdfData): it throws (return of line 301), or the text is shorter than 50
\* characters (OCR for a large PDF, the return of line 533 for a small one), or
\* the three extractors run on the text, the temp file is deleted and the
\* figures are returned.
PdfParse(p) ==
    /\ pc[p] = "pdf_parse"
    /\ \/ /\ Return(p, NoFigures, "parse_error")
          /\ UNCHANGED tempDir
       \/ /\ IF pdfHasContent[p] THEN Goto(p, "ocr") ELSE Return(p, NoFigures, "too_short")
          /\ UNCHANGED tempDir
       \/ /\ \E f \in Figures : Return(p, f, IF AnyFigure(f) THEN "text" ELSE "not_found")
          /\ tempDir' = tempDir \ {TempPdfPath(Orgnr, year[p])}
    /\ UNCHANGED <<callVars, storeVars, pdfHasContent, trace, pureVars, pipelineVars>>

\* performOCR and the extractors on its text: with a figure the store is
\* updated; without text or figure the journal number is looked for.
OcrStage(p) ==
    /\ pc[p] = "ocr"
    /\ \/ /\ \E f \in Figures : AnyFigure(f) /\ BeginUpdate(p, f)
          /\ Goto(p, "ocr_db")
       \/ /\ Goto(p, "journal")
          /\ UNCHANGED <<figs, dbState, dbError, snap>>
    /\ UNCHANGED <<year, storeVars, tempDir, pdfHasContent, trace, pureVars, pipelineVars>>

\* The update of line 395 is over: delete the temp file and return the figures,
\* or, when it threw, catch (ocrError) and look for the journal number.
OcrUpdated(p) ==
    /\ pc[p] = "ocr_db"
    /\ dbState[p] \in {"ok", "failed"}
    /\ IF dbState[p] = "ok"
       THEN /\ tempDir' = tempDir \ {TempPdfPath(Orgnr, year[p])}
            /\ Return(p, figs[p], "ocr")
       ELSE /\ Goto(p, "journal")
            /\ UNCHANGED tempDir
    /\ EndUpdate(p)
    /\ UNCHANGED <<year, storeVars, pdfHasContent, trace, pureVars, pipelineVars>>

\* A journal number in the PDF info or metadata and the API asked with it: an
\* aarsresultat of the right year is written to the store; otherwise the
\* return of line 533.
JournalStage(p) ==
    /\ pc[p] = "journal"
    /\ \/ /\ \E v \in FigureValues : BeginUpdate(p, OnlyAarsresultat(v))
          /\ Goto(p, "journal_db")
       \/ /\ Return(p, NoFigures, "too_short")
          /\ UNCHANGED <<figs, dbState, dbError, snap>>
    /\ UNCHANGED <<year, storeVars, tempDir, pdfHasContent, trace, pureVars, pipelineVars>>

\* The update of line 501 is over: the return of line 502, or, when it threw,
\* catch (apiError) and the return of line 533.
JournalUpdated(p) ==
    /\ pc[p] = "journal_db"
    /\ dbState[p] \in {"ok", "failed"}
    /\ IF dbState[p] = "ok"
       THEN Return(p, figs[p], "journal")
       ELSE Return(p, NoFigures, "too_short")
    /\ EndUpdate(p)
    /\ UNCHANGED <<year, storeVars, tempDir, pdfHasContent, trace, pureVars, pipelineVars>>

\* res.json(result): the request is answered.
Respond(p) ==
    /\ pc[p] = "done"
    /\ pc' = [pc EXCEPT ![p] = "idle"]
    /\ result' = [result EXCEPT ![p] = NoResult]
    /\ pdfHasContent' = [pdfHasContent EXCEPT ![p] = FALSE]
    /\ trace' = [trace EXCEPT ![p] = NoTrace]
    /\ UNCHANGED <<callVars, storeVars, tempDir, pureVars, pipelineVars>>

ScrapeInit ==
    /\ tempDir = {}
    /\ pdfHasContent = [p \in Requests |-> FALSE]
    /\ result = [p \in Requests |-> NoResult]
    /\ trace = [p \in Requests |-> NoTrace]

(***************************************************************************)
(* Strings are sequences of one-character strings.  The operators below    *)
(* are the string functions and regular expressions the helpers use.       *)
(***************************************************************************)
\* The sequences over S of length 1 to n.
SeqsUpTo(S, n) == UNION {[1..k -> S] : k \in 1..n}

Digits == {"0", "1", "2", "3", "4", "5", "6", "7", "8", "9"}

\* \d
IsDigit(c) == c \in Digits

\* \s
IsSpace(c) == c \in {" ", "\t", "\n"}

DigitValue(c) ==
    CASE c = "0" -> 0 [] c = "1" -> 1 [] c = "2" -> 2 [] c = "3" -> 3 [] c = "4" -> 4
      [] c = "5" -> 5 [] c = "6" -> 6 [] c = "7" -> 7 [] c = "8" -> 8 [] c = "9" -> 9

\* The base-10 value of a sequence of digits.
RECURSIVE DigitsValue(_)
DigitsValue(s) ==
    IF s = <<>> THEN 0
    ELSE 10 * DigitsValue(SubSeq(s, 1, Len(s) - 1)) + DigitValue(s[Len(s)])

\* The length of the longest prefix of s made of digits.
DigitPrefixLen(s) ==
    CHOOSE k \in 0..Len(s) :
       /\ \A i \in 1..k : IsDigit(s[i])
       /\ k = Len(s) \/ ~IsDigit(s[k + 1])

RECURSIVE TrimStart(_)
TrimStart(s) == IF s # <<>> /\ IsSpace(Head(s)) THEN TrimStart(Tail(s)) ELSE s

RECURSIVE TrimEnd(_)
TrimEnd(s) ==
    IF s # <<>> /\ IsSpace(s[Len(s)]) THEN TrimEnd(SubSeq(s, 1, Len(s) - 1)) ELSE s

\* String.prototype.trim
Trim(s) == TrimEnd(TrimStart(s))

UpperCase == <<"A", "B", "C", "D", "E", "F", "G", "H", "I", "J", "K", "L", "M", "N", "O", "P", "Q", "R", "S", "T", "U", "V", "W", "X", "Y", "Z">>

LowerCase == <<"a", "b", "c", "d", "e", "f", "g", "h", "i", "j", "k", "l", "m", "n", "o", "p", "q", "r", "s", "t", "u", "v", "w", "x", "y", "z">>

\* String.prototype.toLowerCase
ToLowerCase(s) ==
    [i \in 1..Len(s) |->
        IF \E k \in 1..26 : UpperCase[k] = s[i]
        THEN LowerCase[CHOOSE k \in 1..26 : UpperCase[k] = s[i]]
        ELSE s[i]]

\* String.prototype.startsWith
StartsWith(s, prefix) ==
    Len(s) >= Len(prefix) /\ SubSeq(s, 1, Len(prefix)) = prefix

\* parseInt(s, 10): leading white space and a sign are skipped, the longest
\* prefix of digits is read; without a digit the result is NaN (Null here).
parseInt(s) ==
    LET t == TrimStart(s)
        signed == t # <<>> /\ t[1] \in {"-", "+"}
        u == IF signed THEN Tail(t) ELSE t
        k == DigitPrefixLen(u)
        v == DigitsValue(SubSeq(u, 1, k))
    IN IF k = 0 THEN Null
       ELSE IF signed /\ t[1] = "-" THEN Some(0 - v) ELSE Some(v)

(***************************************************************************)
(* Year extraction: the year of a candidate of the Regnskapsregisteret     *)
(* API and of a statement of the page data.                                *)
(***************************************************************************)
MIN_YEAR == 1990

\* JavaScript values: undefined, a number, a string.
Undefined == [type |-> "undefined"]

Num(n) == [type |-> "number", n |-> n]

Str(s) == [type |-> "string", s |-> s]

\* The truthiness of a value.
Truthy(v) ==
    CASE v.type = "undefined" -> FALSE
      [] v.type = "number" -> v.n # 0
      [] v.type = "string" -> v.s # <<>>

\* The start of the first match of /(19|20)\d{2}/ in s, 0 when there is none.
CenturyYearMatch(s) ==
    LET At(i) == /\ i + 3 <= Len(s)
                 /\ SubSeq(s, i, i + 1) \in {<<"1", "9">>, <<"2", "0">>}
                 /\ IsDigit(s[i + 2]) /\ IsDigit(s[i + 3])
    IN IF \E i \in 1..Len(s) : At(i)
       THEN CHOOSE i \in 1..Len(s) : At(i) /\ \A j \in 1..(i - 1) : ~At(j)
       ELSE 0

\* The start of the first match of /(\d{4})/ in s, 0 when there is none.
FourDigitMatch(s) ==
    LET At(i) == i + 3 <= Len(s) /\ \A k \in i..(i + 3) : IsDigit(s[k])
    IN IF \E i \in 1..Len(s) : At(i)
       THEN CHOOSE i \in 1..Len(s) : At(i) /\ \A j \in 1..(i - 1) : ~At(j)
       ELSE 0

\* /^(19|20)\d{2}$/.test(String(n)) for an integer n.
YEAR_REGEX(n) == 1900 <= n /\ n <= 2099

\* parseYear(value): a number is returned as it is (Math.floor of an integer),
\* a string yields its first match of /(19|20)\d{2}/, anything else null.
parseYear(value) ==
    CASE value.type = "number" -> Some(value.n)
      [] value.type = "string" ->
           LET i == CenturyYearMatch(value.s)
           IN IF i = 0 THEN Null ELSE Some(DigitsValue(SubSeq(value.s, i, i + 3)))
      [] OTHER -> Null

\* if (year) return year
TruthyYear(y) == y # Null /\ y # Some(0)

\* String(tilDato || fraDato || '')
DateStr(c) ==
    IF Truthy(c.tilDato) THEN c.tilDato
    ELSE IF Truthy(c.fraDato) THEN c.fraDato ELSE Str(<<>>)

\* extractYearFromCandidate(candidate, fallbackYear) of regnskap-api.ts.
extractYearFromCandidate(c, fallbackYear) ==
    IF TruthyYear(parseYear(c.ar)) THEN parseYear(c.ar)
    ELSE IF TruthyYear(parseYear(DateStr(c))) THEN parseYear(DateStr(c))
    ELSE parseYear(Num(fallbackYear))

\* The year of tilDato.match(/(\d{4})/), null without a string or a match.
MatchedYear(d) ==
    IF d.type = "string" /\ d.s # <<>> /\ FourDigitMatch(d.s) # 0
    THEN Some(DigitsValue(SubSeq(d.s, FourDigitMatch(d.s), FourDigitMatch(d.s) + 3)))
    ELSE Null

\* actualYear of extractFromRegnskapApi: the year of tilDato, else of fraDato,
\* else the requested year.
ActualYear(c, y) ==
    IF TruthyYear(MatchedYear(c.tilDato)) THEN MatchedYear(c.tilDato)
    ELSE IF TruthyYear(MatchedYear(c.fraDato)) THEN MatchedYear(c.fraDato)
    ELSE Some(y)

\* const year = typeof raw === 'number' ? raw : parseInt(String(raw), 10)
StatementFieldYear(raw) == IF raw.type = "number" THEN Some(raw.n) ELSE parseInt(raw.s)

\* extractYearFromStatement(statement) for a statement with the fields 'ar' and
\* 'year' and no summary: the first field that passes YEAR_REGEX, else
\* statement.year as it is.
extractYearFromStatement(c) ==
    IF /\ c.year.type # "undefined"
       /\ StatementFieldYear(c.year) # Null
       /\ \A n \in StatementFieldYear(c.year) : YEAR_REGEX(n)
    THEN {Num(n) : n \in StatementFieldYear(c.year)}
    ELSE IF /\ c.ar.type # "undefined"
            /\ StatementFieldYear(c.ar) # Null
            /\ \A n \in StatementFieldYear(c.ar) : YEAR_REGEX(n)
    THEN {Num(n) : n \in StatementFieldYear(c.ar)}
    ELSE IF c.year.type # "undefined" THEN Some(c.year)
    ELSE Null

\* The values of the fields 'ar' and 'year' the upstream may send.
YearFieldValues ==
    {Undefined, Num(2022), Num(1989), Num(2099), Str(<<"2", "0", "2", "2">>), Str(<<"1", "8", "5", "0">>)}

\* The values of regnskapsperiode.tilDato and fraDato the upstream may send.
TilDatoValues ==
    {Undefined, Str(<<"2", "0", "2", "2", "-", "1", "2", "-", "3", "1">>), Str(<<"1", "9", "8", "9", "-", "1", "2", "-", "3", "1">>),
     Str(<<"3", "1", ".", "1", "2", ".", "2", "0", "9", "9">>)}

FraDatoValues == {Undefined, Str(<<"2", "0", "2", "2", "-", "0", "1", "-", "0", "1">>)}

\* The upstream objects of the model.
UpstreamCandidates ==
    [ar : YearFieldValues, year : {Undefined, Num(1800)},
     tilDato : TilDatoValues, fraDato : FraDatoValues]

\* yearsToCheck of extractFromRegnskapApi, cut to the latest two years.
YearsToCheck == {CurrentYear - 1, CurrentYear}

YearUnchanged ==
    /\ UNCHANGED <<reports, pdfLinks, mergedReports, candidate, requestedYear, rawDocuments, documents,
                   numeral, parsed>>
    /\ UNCHANGED <<pc, callVars, scrapeVars, pipelineVars>>

\* extractFromRegnskapApi of scrape-annual-reports.ts pushes the entry
\* {year: actualYear, ...}.
ExtractFromRegnskapApi ==
    /\ step = "input"
    /\ candidate # <<>>
    /\ entryYear' = {Num(n) : n \in ActualYear(candidate, requestedYear)}
    /\ step' = "extractFromRegnskapApi"
    /\ YearUnchanged /\ UNCHANGED storeVars

\* normalizeRegnskapResponse(data, fallbackYear) of regnskap-api.ts returns the
\* entry {year, ...} of the candidate.
NormalizeRegnskapResponse ==
    /\ step = "input"
    /\ candidate # <<>>
    /\ entryYear' = IF TruthyYear(extractYearFromCandidate(candidate, requestedYear))
                    THEN {Num(n) : n \in extractYearFromCandidate(candidate, requestedYear)}
                    ELSE Null
    /\ step' = "normalizeRegnskapResponse"
    /\ YearUnchanged /\ UNCHANGED storeVars

\* The page data path takes the year of a statement from extractYearFromStatement.
ExtractYearFromStatement ==
    /\ step = "input"
    /\ candidate # <<>>
    /\ entryYear' = extractYearFromStatement(candidate)
    /\ step' = "extractYearFromStatement"
    /\ YearUnchanged /\ UNCHANGED storeVars

\* main: for (const report of reports) upsertAnnualReport(client, orgnr, report)
StoreReport ==
    /\ step \in {"extractFromRegnskapApi", "normalizeRegnskapResponse", "extractYearFromStatement"}
    /\ \E y \in entryYear, d \in ApiPayloads :
          /\ table' = UpsertRows(table, Orgnr, y.n, d, now)
          /\ lastWrite' = Written("upsert", y.n)
    /\ step' = "stored"
    /\ UNCHANGED <<now, entryYear>>
    /\ YearUnchanged

(***************************************************************************)
(* Document URLs: isPlaceholderUrl, normalizeDocumentUrl, isLikelyPdfUrl   *)
(* and the two ways a raw document becomes a document of a report.         *)
(***************************************************************************)
\* The most raw documents one API entry carries.
MaxDocuments == 2

BASE_DOMAIN == <<"h", "t", "t", "p", "s", ":", "/", "/", "v", "i", "r", "k", "s", "o", "m", "h", "e", "t", ".", "b", "r", "r", "e", "g", ".", "n", "o">>

\* The URL of the API that a report without documents gets.
API_URL == <<"h", "t", "t", "p", "s", ":", "/", "/", "d", "a", "t", "a", ".", "b", "r", "r", "e", "g", ".", "n", "o", "/", "r", "e", "g", "n", "s", "k", "a", "p", "s", "r", "e", "g", "i", "s", "t", "e", "r", "e", "t", "/", "r", "e", "g", "n", "s", "k", "a", "p">>

\* String.prototype.includes
Includes(s, sub) ==
    \E i \in 1..(Len(s) - Len(sub) + 1) : SubSeq(s, i, i + Len(sub) - 1) = sub

\* isPlaceholderUrl(url): url is Null for null and undefined.
isPlaceholderUrl(url) ==
    IF url = Null \/ url = Some(<<>>) THEN TRUE
    ELSE LET normalized == ToLowerCase(Trim(CHOOSE s \in url : TRUE))
         IN \/ normalized = <<>>
            \/ normalized = <<"#">>
            \/ StartsWith(normalized, <<"j", "a", "v", "a", "s", "c", "r", "i", "p", "t", ":">>)
            \/ StartsWith(normalized, <<"a", "b", "o", "u", "t", ":">>)

\* /^https?:\/\//i.test(trimmed)
IsAbsoluteUrl(s) ==
    \/ StartsWith(ToLowerCase(s), <<"h", "t", "t", "p", ":", "/", "/">>)
    \/ StartsWith(ToLowerCase(s), <<"h", "t", "t", "p", "s", ":", "/", "/">>)

\* trimmed.replace(/^\/+/, '')
RECURSIVE StripLeadingSlashes(_)
StripLeadingSlashes(s) ==
    IF s # <<>> /\ Head(s) = "/" THEN StripLeadingSlashes(Tail(s)) ELSE s

\* normalizeDocumentUrl(rawUrl)
normalizeDocumentUrl(rawUrl) ==
    IF rawUrl = Null \/ rawUrl = Some(<<>>) \/ isPlaceholderUrl(rawUrl) THEN Null
    ELSE LET trimmed == Trim(CHOOSE s \in rawUrl : TRUE)
         IN IF IsAbsoluteUrl(trimmed) THEN Some(trimmed)
            ELSE IF StartsWith(trimmed, <<"/", "/">>) THEN Some(<<"h", "t", "t", "p", "s", ":">> \o trimmed)
            ELSE IF StartsWith(trimmed, <<"/">>) THEN Some(BASE_DOMAIN \o trimmed)
            ELSE Some(BASE_DOMAIN \o <<"/">> \o StripLeadingSlashes(trimmed))

\* isLikelyPdfUrl(rawUrl)
isLikelyPdfUrl(rawUrl) ==
    IF rawUrl = Null \/ rawUrl = Some(<<>>) \/ isPlaceholderUrl(rawUrl) THEN FALSE
    ELSE Includes(ToLowerCase(Trim(CHOOSE s \in rawUrl : TRUE)), <<".", "p", "d", "f">>)

\* The loop of buildDocumentsWithPdf over documents[1..n]: a document is kept
\* with its normalized URL when that is not null and looks like a PDF.
RECURSIVE BuildDocumentsLoop(_, _)
BuildDocumentsLoop(docs, n) ==
    IF n = 0 THEN <<>>
    ELSE LET normalizedUrl == normalizeDocumentUrl(docs[n])
         IN IF normalizedUrl = Null \/ ~isLikelyPdfUrl(normalizedUrl)
            THEN BuildDocumentsLoop(docs, n - 1)
            ELSE Append(BuildDocumentsLoop(docs, n - 1), CHOOSE s \in normalizedUrl : TRUE)

\* extractUrlFromDocument(doc): the trimmed URL field, null when it is not a
\* string or blank.
extractUrlFromDocument(rawUrl) ==
    IF rawUrl = Null \/ Trim(CHOOSE s \in rawUrl : TRUE) = <<>> THEN Null
    ELSE Some(Trim(CHOOSE s \in rawUrl : TRUE))

\* The loop of mapApiDocumentsToRaw over documents[1..n]: a document is kept
\* with its extracted URL unless that is null or was seen before.
RECURSIVE mapApiDocumentsToRaw(_, _)
mapApiDocumentsToRaw(docs, n) ==
    IF n = 0 THEN <<>>
    ELSE LET results == mapApiDocumentsToRaw(docs, n - 1)
             url == extractUrlFromDocument(docs[n])
         IN IF url = Null \/ \E i \in DOMAIN results : Some(results[i]) = url
            THEN results
            ELSE Append(results, CHOOSE s \in url : TRUE)

\* The documents of a report of extractFromRegnskapApi: url: doc.url || the API
\* URL for each raw document, one document with the API URL when there is none.
ApiReportDocuments(docs) ==
    LET rawDocs == mapApiDocumentsToRaw(docs, Len(docs))
    IN IF rawDocs = <<>> THEN <<API_URL>>
       ELSE [i \in DOMAIN rawDocs |-> IF rawDocs[i] # <<>> THEN rawDocs[i] ELSE API_URL]

\* The URL fields the upstream may send: absent, blank, placeholders, relative,
\* protocol-relative and absolute addresses.
RawUrls ==
    {Null, Some(<<>>), Some(<<"#">>), Some(<<" ", "#", " ">>),
     Some(<<"j", "a", "v", "a", "s", "c", "r", "i", "p", "t", ":", "v", "o", "i", "d", "(", "0", ")">>), Some(<<"J", "a", "v", "a", "S", "c", "r", "i", "p", "t", ":", "x">>),
     Some(<<"a", "b", "o", "u", "t", ":", "b", "l", "a", "n", "k">>), Some(<<"/", "d", "o", "k", "/", "a", "b", "c", ".", "p", "d", "f">>),
     Some(<<"/", "/", "c", "d", "n", ".", "n", "o", "/", "a", ".", "p", "d", "f">>), Some(<<"h", "t", "t", "p", "s", ":", "/", "/", "x", ".", "n", "o", "/", "a", ".", "p", "d", "f">>),
     Some(<<"H", "T", "T", "P", ":", "/", "/", "x", ".", "n", "o", "/", "b", ".", "P", "D", "F">>), Some(<<"d", "o", "k", "/", "a", ".", "p", "d", "f">>),
     Some(<<" ", "/", "i", "n", "f", "o", " ">>)}

UrlUnchanged ==
    /\ UNCHANGED <<reports, pdfLinks, mergedReports, candidate, requestedYear, entryYear, rawDocuments,
                   numeral, parsed>>
    /\ UNCHANGED <<storeVars, pc, callVars, scrapeVars, pipelineVars>>

\* buildDocumentsWithPdf(documents, orgnr, year) of the page data path.
BuildDocumentsWithPdf ==
    /\ step = "input"
    /\ rawDocuments # <<>>
    /\ documents' = BuildDocumentsLoop(rawDocuments, Len(rawDocuments))
    /\ step' = "buildDocumentsWithPdf"
    /\ UrlUnchanged

\* extractFromRegnskapApi of scrape-annual-reports.ts builds the documents of
\* the report that main then upserts.
MapApiDocuments ==
    /\ step = "input"
    /\ rawDocuments # <<>>
    /\ documents' = ApiReportDocuments(rawDocuments)
    /\ step' = "mapApiDocuments"
    /\ UrlUnchanged

(***************************************************************************)
(* Numeral parsing in extractAarsresultatFromPdfText: the capture of a     *)
(* pattern is cleaned of separators and handed to parseInt.                *)
(***************************************************************************)
\* The longest numeral made of the characters of NumeralAlphabet.
MaxNumeralLen == 3

NumeralAlphabet == {"3", "4", " ", ".", ",", "(", ")", "-"}

\* The numerals the claim names.
NamedNumerals ==
    {<<"3", "4", "8", " ", "1", "9", "7">>, <<"1", ".", "2", "3", "4", ".", "5", "6", "7">>, <<"(", "3", "4", "8", " ", "1", "9", "7", ")">>, <<"-", "3", "4", "8", " ", "1", "9", "7">>}

\* match[1].replace(/\s+/g, '').replace(/\./g, '').replace(/,/g, '')
CleanedValue(s) ==
    LET Kept(c) == ~IsSpace(c) /\ c # "." /\ c # ","
    IN SelectSeq(s, Kept)

\* const parsedValue = parseInt(cleanedValue, 10): Null stands for NaN.
ParsedValue(s) == parseInt(CleanedValue(s))

\* The pieces of s between single characters sep.
RECURSIVE Split(_, _)
Split(s, sep) ==
    IF \E i \in 1..Len(s) : s[i] = sep
    THEN LET i == CHOOSE k \in 1..Len(s) : s[k] = sep /\ \A j \in 1..(k - 1) : s[j] # sep
         IN <<SubSeq(s, 1, i - 1)>> \o Split(SubSeq(s, i + 1, Len(s)), sep)
    ELSE <<s>>

AllDigits(s) == \A i \in 1..Len(s) : IsDigit(s[i])

\* s matches [-]?\d{1,3}(?:\s?\d{3})*(?:\s?\d{3})* as a whole, with a blank
\* for \s: digits in groups, every group after a blank a multiple of three.
IsGroupedNumeral(s) ==
    LET u == IF s # <<>> /\ Head(s) = "-" THEN Tail(s) ELSE s
        groups == Split(u, " ")
    IN /\ \A i \in DOMAIN groups : groups[i] # <<>> /\ AllDigits(groups[i])
       /\ \A i \in 2..Len(groups) : Len(groups[i]) % 3 = 0

\* The end of the longest run of groups (?:\s?\d{3})* of s that starts after
\* position k.
RECURSIVE GroupsEnd(_, _)
GroupsEnd(s, k) ==
    IF k + 4 <= Len(s) /\ IsSpace(s[k + 1]) /\ AllDigits(SubSeq(s, k + 2, k + 4))
    THEN GroupsEnd(s, k + 4)
    ELSE IF k + 3 <= Len(s) /\ AllDigits(SubSeq(s, k + 1, k + 3))
         THEN GroupsEnd(s, k + 3)
         ELSE k

\* The greedy match of [-]?\d{1,3}(?:\s?\d{3})*(?:\s?\d{3})* at the start of s:
\* a sign, up to three digits, then groups of three; Null without a match.
NumeralPrefix(s) ==
    LET off == IF s # <<>> /\ Head(s) = "-" THEN 1 ELSE 0
        dl == DigitPrefixLen(SubSeq(s, off + 1, Len(s)))
        first == IF dl > 3 THEN 3 ELSE dl
    IN IF dl = 0 THEN Null ELSE Some(SubSeq(s, 1, GroupsEnd(s, off + first)))

\* The capture of /årsresultat[:\s]+([-]?\d{1,3}(?:\s?\d{3})*(?:\s?\d{3})*)/i in
\* the text 'Årsresultat ' followed by s.
LabelledCapture(s) == NumeralPrefix(TrimStart(s))

\* The capture of /årsresultat[^:]*\(([-]?\d{1,3}(?:\s?\d{3})*(?:\s?\d{3})*)\)/i:
\* the grouped numeral between the last '(' that has one and the next ')'.
ParenthesisedCapture(s) ==
    LET Inner(i) ==
            LET j == CHOOSE k \in (i + 1)..Len(s) :
                        s[k] = ")" /\ \A m \in (i + 1)..(k - 1) : s[m] # ")"
            IN SubSeq(s, i + 1, j - 1)
        Opens(i) == /\ s[i] = "("
                    /\ \E k \in (i + 1)..Len(s) : s[k] = ")"
                    /\ Inner(i) # <<>>
                    /\ IsGroupedNumeral(Inner(i))
    IN IF \E i \in 1..Len(s) : Opens(i)
       THEN Some(Inner(CHOOSE i \in 1..Len(s) : Opens(i) /\ \A m \in (i + 1)..Len(s) : ~Opens(m)))
       ELSE Null

\* The capture of /årsresultat[^\d]*([-]?\d{1,3}(?:\s?\d{3})*(?:\s?\d{3})*)/i:
\* the numeral that starts at the first digit.
SameLineCapture(s) ==
    IF \E i \in 1..Len(s) : IsDigit(s[i])
    THEN LET d == CHOOSE i \in 1..Len(s) : IsDigit(s[i]) /\ \A m \in 1..(i - 1) : ~IsDigit(s[m])
         IN NumeralPrefix(SubSeq(s, d, Len(s)))
    ELSE Null

\* The capture of /([-]?\d{1,3}(?:\s?\d{3})*(?:\s?\d{3})*)/: the leftmost numeral,
\* with the '-' that stands right before its first digit.
FirstNumeralCapture(s) ==
    IF \E i \in 1..Len(s) : IsDigit(s[i])
    THEN LET d == CHOOSE i \in 1..Len(s) : IsDigit(s[i]) /\ \A m \in 1..(i - 1) : ~IsDigit(s[m])
             b == IF d > 1 /\ s[d - 1] = "-" THEN d - 1 ELSE d
         IN NumeralPrefix(SubSeq(s, b, Len(s)))
    ELSE Null

\* Math.abs(parsedValue) > 100 for the value of a capture.
AboveHundred(c) ==
    c # Null /\ \A n \in ParsedValue(CHOOSE x \in c : TRUE) : n > 100 \/ n < 0 - 100

\* extractAarsresultatFromPdfText on the one-line text 'Årsresultat ' followed
\* by s: the patterns in order (only the first and the last can match such a
\* text), then the line scans with their threshold.
extractAarsresultatFromPdfText(s) ==
    IF LabelledCapture(s) # Null
    THEN ParsedValue(CHOOSE c \in LabelledCapture(s) : TRUE)
    ELSE IF ParenthesisedCapture(s) # Null
    THEN ParsedValue(CHOOSE c \in ParenthesisedCapture(s) : TRUE)
    ELSE IF AboveHundred(SameLineCapture(s))
    THEN ParsedValue(CHOOSE c \in SameLineCapture(s) : TRUE)
    ELSE IF AboveHundred(FirstNumeralCapture(s))
    THEN ParsedValue(CHOOSE c \in FirstNumeralCapture(s) : TRUE)
    ELSE Null

ParseUnchanged ==
    /\ UNCHANGED <<reports, pdfLinks, mergedReports, candidate, requestedYear, entryYear, rawDocuments,
                   documents, numeral>>
    /\ UNCHANGED <<storeVars, pc, callVars, scrapeVars, pipelineVars>>

\* The cleaning and parseInt of lines 648-649 applied to the numeral.
ParseNumeral ==
    /\ step = "input"
    /\ numeral # <<>>
    /\ parsed' = ParsedValue(numeral)
    /\ step' = "parseNumeral"
    /\ ParseUnchanged

\* The pattern loop of extractAarsresultatFromPdfText applied to the text
\* 'Årsresultat ' followed by the numeral.
ExtractAarsresultat ==
    /\ step = "input"
    /\ numeral # <<>>
    /\ parsed' = extractAarsresultatFromPdfText(numeral)
    /\ step' = "extractAarsresultat"
    /\ ParseUnchanged

(***************************************************************************)
(* Candidate merging: dedupeReports, and the merge of the PDF links of the *)
(* page into the reports of the API.                                       *)
(***************************************************************************)
\* The most candidates one discovery pass hands to dedupeReports.
MaxReports == 2

\* The most PDF links found on the page.
MaxLinks == 1

\* Two document URLs of a candidate.
DocA == BASE_DOMAIN \o <<"/", "d", "o", "k", "/", "a", "b", "c", ".", "p", "d", "f">>

DocB == API_URL

\* The candidates extractFromRegnskapApi builds from the entries of the API,
\* one per entry: year 0 stands for a missing year.
Candidates ==
    [year : {0, 2022, 2023}, source : {"regnskap-api"}, documents : {<<DocA>>, <<DocB>>}]

\* The links {year, url} the page evaluation returns.
PdfLinks ==
    [year : {2022, 2024},
     url : {Some(<<"/", "d", "o", "k", "/", "a", "b", "c", ".", "p", "d", "f">>), Some(<<"/", "d", "o", "k", "/", "b", ".", "p", "d", "f">>), Some(<<"#">>), Some(<<" ", "/", "i", "n", "f", "o", " ">>)}]

\* map.set(report.year, report) on a Map kept as the sequence of its values in
\* insertion order: a present key keeps its place and takes the new value.
MapSet(map, report) ==
    IF \E i \in DOMAIN map : map[i].year = report.year
    THEN [i \in DOMAIN map |-> IF map[i].year = report.year THEN report ELSE map[i]]
    ELSE Append(map, report)

\* The loop of dedupeReports over reports[1..n].
RECURSIVE DedupeLoop(_, _)
DedupeLoop(rs, n) ==
    IF n = 0 THEN <<>>
    ELSE IF rs[n].year = 0
         THEN DedupeLoop(rs, n - 1)
         ELSE MapSet(DedupeLoop(rs, n - 1), rs[n])

\* dedupeReports(reports): Array.from(map.values())
dedupeReports(rs) == DedupeLoop(rs, Len(rs))

\* for (const report of existingReports) reportsMap.set(report.year, {...report})
RECURSIVE ExistingReportsMap(_, _)
ExistingReportsMap(rs, n) ==
    IF n = 0 THEN <<>> ELSE MapSet(ExistingReportsMap(rs, n - 1), rs[n])

\* One PDF link merged into reportsMap: a link without a usable PDF URL is
\* skipped, a link of a year that has a report is added to the documents of
\* that report unless its URL is there, another link makes a new report.
AddPdfLink(map, link) ==
    LET absoluteUrl == normalizeDocumentUrl(link.url)
    IN IF absoluteUrl = Null \/ ~isLikelyPdfUrl(absoluteUrl) THEN map
       ELSE LET u == CHOOSE s \in absoluteUrl : TRUE
            IN IF \E i \in DOMAIN map : map[i].year = link.year
               THEN [i \in DOMAIN map |->
                       IF map[i].year = link.year
                          /\ ~\E k \in DOMAIN map[i].documents : map[i].documents[k] = u
                       THEN [map[i] EXCEPT !.documents = Append(@, u)]
                       ELSE map[i]]
               ELSE Append(map, [year |-> link.year, source |-> "puppeteer-js",
                                 documents |-> <<u>>])

\* The loop of extractPdfLinksFromVirksomhetPage over pdfLinks[1..n].
RECURSIVE PdfLinksLoop(_, _, _)
PdfLinksLoop(existingReports, links, n) ==
    IF n = 0 THEN ExistingReportsMap(existingReports, Len(existingReports))
    ELSE AddPdfLink(PdfLinksLoop(existingReports, links, n - 1), links[n])

MergeUnchanged ==
    /\ UNCHANGED <<reports, pdfLinks, candidate, requestedYear, entryYear, rawDocuments,
                   documents, numeral, parsed>>
    /\ UNCHANGED <<storeVars, pc, callVars, scrapeVars, pipelineVars>>

\* extractFromRegnskapApi ends with return dedupeReports(reports).
DedupeReports ==
    /\ step = "input"
    /\ reports # <<>>
    /\ mergedReports' = dedupeReports(reports)
    /\ step' = "dedupeReports"
    /\ MergeUnchanged

\* fetchAnnualReports hands the reports of the API to
\* extractPdfLinksFromVirksomhetPage, which merges the links of the page.
ExtractPdfLinksFromVirksomhetPage ==
    /\ step = "dedupeReports"
    /\ mergedReports # <<>>
    /\ mergedReports' = PdfLinksLoop(mergedReports, pdfLinks, Len(pdfLinks))
    /\ step' = "extractPdfLinks"
    /\ MergeUnchanged

\* The words of the labels, in lower case.
AARSRESULTAT == <<"å", "r", "s", "r", "e", "s", "u", "l", "t", "a", "t">>

RESULTAT == <<"r", "e", "s", "u", "l", "t", "a", "t">>

NETTORESULTAT == <<"n", "e", "t", "t", "o", "r", "e", "s", "u", "l", "t", "a", "t">>

RESULTATREGNSKAP == <<"r", "e", "s", "u", "l", "t", "a", "t", "r", "e", "g", "n", "s", "k", "a", "p">>

FOR == <<"f", "o", "r">>

AARET == <<"å", "r", "e", "t">>

ETTER == <<"e", "t", "t", "e", "r">>

SKATT == <<"s", "k", "a", "t", "t">>

(***************************************************************************)
(* extractAarsresultatFromPdfText on a text of several lines: the pattern  *)
(* loop over the whole text, then the three line scans.                    *)
(***************************************************************************)
\* The longest line that follows the labelled line.
MaxFollowingLen == 3

\* [:\s]
IsLabelSeparator(c) == c = ":" \/ IsSpace(c)

\* The character classes \s, [:\s] and [^:].
InClass(c, class) ==
    CASE class = "\\s" -> IsSpace(c)
      [] class = "[:\\s]" -> IsLabelSeparator(c)
      [] class = "[^:]" -> c # ":"

\* The index of the first character from p on that is outside the class,
\* Len + 1 when there is none: the end of a greedy run of the class.
RunEnd(text, p, class) ==
    CHOOSE q \in p..(Len(text) + 1) :
       /\ \A i \in p..(q - 1) : InClass(text[i], class)
       /\ q = Len(text) + 1 \/ ~InClass(text[q], class)

\* The index after the words matched from p on without regard to case, with
\* \s+ between two words; 0 without a match.
RECURSIVE PhraseEnd(_, _, _)
PhraseEnd(text, p, words) ==
    LET w == Head(words)
        e == p + Len(w)
    IN IF e - 1 <= Len(text) /\ ToLowerCase(SubSeq(text, p, e - 1)) = w
       THEN IF Tail(words) = <<>> THEN e
            ELSE IF RunEnd(text, e, "\\s") = e THEN 0
                 ELSE PhraseEnd(text, RunEnd(text, e, "\\s"), Tail(words))
       ELSE 0

\* The capture of /<words>[:\s]+([-]?\d{1,3}(?:\s?\d{3})*(?:\s?\d{3})*)/i in the
\* text: the leftmost place where the words, one separator or more and a
\* numeral follow each other.
PhraseCapture(text, words) ==
    LET Cap(p) ==
            LET e == PhraseEnd(text, p, words)
            IN IF e = 0 \/ RunEnd(text, e, "[:\\s]") = e THEN Null
               ELSE NumeralPrefix(SubSeq(text, RunEnd(text, e, "[:\\s]"), Len(text)))
    IN IF \E p \in 1..Len(text) : Cap(p) # Null
       THEN Cap(CHOOSE p \in 1..Len(text) : Cap(p) # Null /\ \A m \in 1..(p - 1) : Cap(m) = Null)
       ELSE Null

\* The text after the leftmost occurrence of the label, Null without one.
AfterLabel(text, label) ==
    LET At(p) == PhraseEnd(text, p, <<label>>) # 0
    IN IF \E p \in 1..Len(text) : At(p)
       THEN Some(SubSeq(text, (CHOOSE p \in 1..Len(text) : At(p) /\ \A m \in 1..(p - 1) : ~At(m))
                                 + Len(label), Len(text)))
       ELSE Null

\* The capture of /resultatregnskap[^\d]*([-]?\d{1,3}(?:\s?\d{3})*(?:\s?\d{3})*)/i
\* and of the same-line pattern of the line scan: the numeral at the first
\* digit after the label.
AfterLabelCapture(text, label) ==
    IF AfterLabel(text, label) = Null THEN Null
    ELSE SameLineCapture(CHOOSE s \in AfterLabel(text, label) : TRUE)

\* The capture of /årsresultat[^:]*\(([-]?\d{1,3}(?:\s?\d{3})*(?:\s?\d{3})*)\)/i
\* after the leftmost label: the parenthesis opens before the first colon.
LabelledParenthesisedCapture(text) ==
    IF AfterLabel(text, AARSRESULTAT) = Null THEN Null
    ELSE LET s == CHOOSE x \in AfterLabel(text, AARSRESULTAT) : TRUE
         IN ParenthesisedCapture(SubSeq(s, 1, RunEnd(s, 1, "[^:]") - 1))

\* The captures of aarsresultatPatterns in their order.  The second, seventh,
\* eighth and ninth pattern match only where the first one matches, and the
\* capture of the first one always parses, so they never decide.
PatternCaptures(text) ==
    <<PhraseCapture(text, <<AARSRESULTAT>>),
      PhraseCapture(text, <<RESULTAT, FOR, AARET>>),
      PhraseCapture(text, <<AARSRESULTAT \o <<"e", "t">>, <<"e", "r">>>>),
      PhraseCapture(text, <<NETTORESULTAT>>),
      PhraseCapture(text, <<RESULTAT>>),
      AfterLabelCapture(text, RESULTATREGNSKAP),
      PhraseCapture(text, <<RESULTAT, ETTER, SKATT>>),
      LabelledParenthesisedCapture(text)>>

\* The value of a capture that passes Math.abs(parsedValue) > 100.
ThresholdValue(c) == IF AboveHundred(c) THEN ParsedValue(CHOOSE x \in c : TRUE) ELSE Null

\* line.includes(keyword) on the line in lower case
LineIncludes(line, keyword) == Includes(ToLowerCase(line), keyword)

\* The value the scan of the lines with 'årsresultat' finds at line i: the
\* numeral after the label on the line, then the first numeral of the next
\* line.
AarsresultatLineValue(lines, i) ==
    IF ~LineIncludes(lines[i], AARSRESULTAT) THEN Null
    ELSE IF ThresholdValue(AfterLabelCapture(lines[i], AARSRESULTAT)) # Null
    THEN ThresholdValue(AfterLabelCapture(lines[i], AARSRESULTAT))
    ELSE IF i + 1 <= Len(lines) THEN ThresholdValue(FirstNumeralCapture(lines[i + 1]))
    ELSE Null

\* The value the scan of the lines with one of resultatKeywords finds at line
\* i: the first numeral of the line.
KeywordLineValue(lines, i) ==
    IF \E k \in {RESULTAT \o <<" ">> \o ETTER \o <<" ">> \o SKATT, NETTORESULTAT,
                 RESULTAT \o <<" ">> \o FOR \o <<" ">> \o AARET} : LineIncludes(lines[i], k)
    THEN ThresholdValue(FirstNumeralCapture(lines[i]))
    ELSE Null

\* The value the last scan finds at line i: the first numeral of a line with
\* 'resultat', then the first numeral of the next line.
ResultatLineValue(lines, i) ==
    IF ~LineIncludes(lines[i], RESULTAT) THEN Null
    ELSE IF ThresholdValue(FirstNumeralCapture(lines[i])) # Null
    THEN ThresholdValue(FirstNumeralCapture(lines[i]))
    ELSE IF i + 1 <= Len(lines) THEN ThresholdValue(FirstNumeralCapture(lines[i + 1]))
    ELSE Null

\* The value a scan finds at line i.
LineValue(lines, i, scan) ==
    CASE scan = "årsresultat" -> AarsresultatLineValue(lines, i)
      [] scan = "resultatKeywords" -> KeywordLineValue(lines, i)
      [] scan = "resultat" -> ResultatLineValue(lines, i)

\* The value of the first line for which a scan finds one.
FirstLineValue(lines, scan) ==
    IF \E i \in 1..Len(lines) : LineValue(lines, i, scan) # Null
    THEN LineValue(lines, CHOOSE i \in 1..Len(lines) :
                             /\ LineValue(lines, i, scan) # Null
                             /\ \A m \in 1..(i - 1) : LineValue(lines, m, scan) = Null,
                   scan)
    ELSE Null

\* extractAarsresultatFromPdfText(pdfText, orgnr, year) on a whole text.
extractAarsresultat(text) ==
    LET caps == PatternCaptures(text)
        lines == Split(text, "\n")
    IN IF \E k \in 1..Len(caps) : caps[k] # Null
       THEN ParsedValue(CHOOSE c \in caps[CHOOSE k \in 1..Len(caps) :
                                    caps[k] # Null /\ \A m \in 1..(k - 1) : caps[m] = Null] : TRUE)
       ELSE IF FirstLineValue(lines, "årsresultat") # Null
       THEN FirstLineValue(lines, "årsresultat")
       ELSE IF FirstLineValue(lines, "resultatKeywords") # Null
       THEN FirstLineValue(lines, "resultatKeywords")
       ELSE FirstLineValue(lines, "resultat")

\* The texts: a first line of a word, a separator and a grouped numeral, and a
\* line that follows it.
LabelWords == {AARSRESULTAT, <<"R", "e", "s", "u", "l", "t", "a", "t">>}

OtherWords == {<<"S", "u", "m">>, <<>>}

LabelSeparators == {<<" ">>, <<":">>, <<":", " ">>}

GroupedNumerals == {<<"3", "4", "8", " ", "1", "9", "7">>, <<"1", "2", " ", "5", "0", "0">>, <<"5">>}

FollowingLines == {<<>>, <<"S", "u", "m", " ", "9", "0", "0">>} \cup SeqsUpTo({"2", "5", " "}, MaxFollowingLen)

PdfTexts ==
    [word : LabelWords \cup OtherWords, separator : LabelSeparators,
     numeral : GroupedNumerals, following : FollowingLines]

\* The text of the parts.
TextOf(t) == t.word \o t.separator \o t.numeral \o <<"\n">> \o t.following

\* The figure extractor applied to the text of a PDF.
ExtractFigure ==
    /\ phase = "input"
    /\ pdfText \in PdfTexts
    /\ netResult' = extractAarsresultat(TextOf(pdfText))
    /\ phase' = "extractAarsresultatFromPdfText"
    /\ UNCHANGED <<pdfText, pdfBuffer, retrieval, runVars>>
    /\ UNCHANGED <<storeVars, pc, callVars, scrapeVars, pureVars>>

(***************************************************************************)
(* The document retrievers: what each does with one response body.         *)
(***************************************************************************)
\* No response body.
NoBuffer == [length |-> 0, pdfStart |-> -1, eofPos |-> -1, errorText |-> FALSE]

\* Whether the bytes were written to the temp directory, whether they were
\* handed to pdf(), and whether the retriever returned a failure.
NoRetrieval == [written |-> FALSE, toParser |-> FALSE, failure |-> FALSE]

\* The outcome of a retriever that validates: accepted bytes are written and
\* parsed, rejected bytes make it return its failure value at once.
Validated(accepted) == [written |-> accepted, toParser |-> accepted, failure |-> ~accepted]

RetrieveUnchanged ==
    /\ UNCHANGED <<pdfText, netResult, pdfBuffer, runVars>>
    /\ UNCHANGED <<storeVars, pc, callVars, scrapeVars, pureVars>>

\* parsePdfAndExtractAarsresultat(orgnr, year, pdfBuffer) up to pdf(pdfData):
\* scrapePdfForYear hands it a response of more than 1000 bytes.
ParsePdfBuffer ==
    /\ phase = "input"
    /\ pdfBuffer.length > 1000
    /\ retrieval' = Validated(IsValidPdf(pdfBuffer))
    /\ phase' = "parsePdfAndExtractAarsresultat"
    /\ RetrieveUnchanged

\* downloadAndParsePdf(orgnr, year, pdfBuffer, axios) of the batch scraper up
\* to pdf(pdfData).
DownloadAndParsePdfBuffer ==
    /\ phase = "input"
    /\ retrieval' = Validated(IsValidPdfData(pdfBuffer))
    /\ phase' = "downloadAndParsePdf(pdfBuffer)"
    /\ RetrieveUnchanged

\* downloadAndParsePdf(url, orgnr, year): the body of the response is written
\* to the temp directory and parsed as it is; the file is deleted on return
\* and on throw.
DownloadAndParsePdf ==
    /\ phase = "input"
    /\ retrieval' = [written |-> TRUE, toParser |-> TRUE, failure |-> FALSE]
    /\ phase' = "downloadAndParsePdf(url)"
    /\ RetrieveUnchanged

(***************************************************************************)
(* main and fetchAnnualReports of the batch scraper: one organisation      *)
(* after the other, each through the API, the rendered page and the plain  *)
(* HTTP fallback.                                                          *)
(***************************************************************************)
\* The most organisations in the list.
MaxOrganisations == 2

\* What the upstream holds for an organisation: nothing (the API queries and
\* the detail page answer 404) or annual reports.
Upstreams == {"absent", "present"}

BatchIdle ==
    /\ queue = <<>> /\ cursor = 1 /\ mainPc = "loop" /\ browser = "none"
    /\ outcome = <<>> /\ attempted = {} /\ stored = {}

BatchUnchanged ==
    /\ UNCHANGED <<pdfText, netResult, phase, pdfBuffer, retrieval, apiVars, ocrVars, fetcherVars, strategyVars, boundsVars, tempVars>>
    /\ UNCHANGED <<storeVars, pc, callVars, scrapeVars, pureVars>>

\* fetchAnnualReports returns (empty, reports) or throws (thrown).
Fetched(o) ==
    /\ outcome' = [outcome EXCEPT ![cursor] = o]
    /\ mainPc' = "fetched"

AfterCatch_Rethrow == "halted"

\* catch (error) { console.error(...) } of the loop of main: the loop goes on.
AfterCatch == "loop"

BrowserAfterCatch_Open == "open"

\* await browser.close() in the catch blocks.
BrowserAfterCatch == "closed"

\* for (const orgnr of organisasjonsnumre) { try { fetchAnnualReports(orgnr)
StartOrganisation ==
    /\ mainPc = "loop"
    /\ cursor <= Len(queue)
    /\ attempted' = attempted \cup {cursor}
    /\ browser' = "none"
    /\ mainPc' = "extractFromRegnskapApi"
    /\ UNCHANGED <<queue, cursor, outcome, stored>>
    /\ BatchUnchanged

\* const apiReports = await extractFromRegnskapApi(orgnr): a 404 of the API is
\* no entry and every error is caught, so absence gives []; with reports that
\* hold PDF text they are returned, without it the page is searched for links.
FetchFromRegnskapApi ==
    /\ mainPc = "extractFromRegnskapApi"
    /\ \/ /\ mainPc' = "launch"
          /\ UNCHANGED outcome
       \/ /\ queue[cursor] = "present"
          /\ mainPc' = "extractPdfLinks"
          /\ UNCHANGED outcome
       \/ /\ queue[cursor] = "present"
          /\ Fetched("reports")
    /\ UNCHANGED <<queue, cursor, browser, attempted, stored>>
    /\ BatchUnchanged

\* extractPdfLinksFromVirksomhetPage: puppeteer.launch inside its try; when
\* it throws, browser is undefined and existingReports is returned.
LaunchForPdfLinks ==
    /\ mainPc = "extractPdfLinks"
    /\ \/ /\ browser' = "open"
          /\ mainPc' = "pdfLinksPage"
          /\ UNCHANGED outcome
       \/ /\ Fetched("reports")
          /\ UNCHANGED browser
    /\ UNCHANGED <<queue, cursor, attempted, stored>>
    /\ BatchUnchanged

\* extractPdfLinksFromVirksomhetPage after the launch: the page is loaded and
\* evaluated and the browser closed before the merge, or a step throws and
\* the catch closes the browser and returns existingReports.
PdfLinksPage ==
    /\ mainPc = "pdfLinksPage"
    /\ \/ browser' = "closed"
       \/ browser' = BrowserAfterCatch
    /\ Fetched("reports")
    /\ UNCHANGED <<queue, cursor, attempted, stored>>
    /\ BatchUnchanged

\* const browser = await puppeteer.launch(...) of fetchAnnualReports, before
\* its try: when it throws, fetchAnnualReports throws.
LaunchBrowser ==
    /\ mainPc = "launch"
    /\ \/ /\ browser' = "open"
          /\ mainPc' = "page"
          /\ UNCHANGED outcome
       \/ /\ Fetched("thrown")
          /\ UNCHANGED browser
    /\ UNCHANGED <<queue, cursor, attempted, stored>>
    /\ BatchUnchanged

\* The try of fetchAnnualReports: the page of an absent organisation renders
\* without links and reports and [] is returned; another page gives reports
\* or none; the browser is closed before each return.  A navigation timeout
\* or an exception of an evaluation goes to the catch, which closes the
\* browser and falls back to plain HTTP.
RenderedPage ==
    /\ mainPc = "page"
    /\ \/ /\ browser' = "closed"
          /\ Fetched("empty")
       \/ /\ queue[cursor] = "present"
          /\ browser' = "closed"
          /\ Fetched("reports")
       \/ /\ browser' = BrowserAfterCatch
          /\ mainPc' = "fallback"
          /\ UNCHANGED outcome
    /\ UNCHANGED <<queue, cursor, attempted, stored>>
    /\ BatchUnchanged

\* The catch of fetchAnnualReports: axios.get(url) with the default
\* validateStatus rejects on 404 and on a network error, and the rejection
\* leaves fetchAnnualReports; a 200 is searched for reports.
HttpFallback ==
    /\ mainPc = "fallback"
    /\ \/ Fetched("thrown")
       \/ /\ queue[cursor] = "present"
          /\ \E o \in {"reports", "empty"} : Fetched(o)
    /\ UNCHANGED <<queue, cursor, browser, attempted, stored>>
    /\ BatchUnchanged

\* The rest of the loop body of main: nothing for an empty list, the upserts
\* of the reports, and the catch for a throw of fetchAnnualReports or of an
\* upsert.
StoreReports ==
    /\ mainPc = "fetched"
    /\ \/ /\ outcome[cursor] = "empty"
          /\ mainPc' = "loop"
          /\ UNCHANGED stored
       \/ /\ outcome[cursor] = "reports"
          /\ stored' = stored \cup {cursor}
          /\ mainPc' = "loop"
       \/ /\ outcome[cursor] \in {"reports", "thrown"}
          /\ mainPc' = AfterCatch
          /\ UNCHANGED stored
    /\ cursor' = cursor + 1
    /\ UNCHANGED <<queue, browser, outcome, attempted>>
    /\ BatchUnchanged

\* The loop is over: await client.end() and the cleanup of the temp directory.
FinishBatch ==
    /\ mainPc = "loop"
    /\ cursor > Len(queue)
    /\ mainPc' = "finished"
    /\ UNCHANGED <<queue, cursor, browser, outcome, attempted, stored>>
    /\ BatchUnchanged

(***************************************************************************)
(* extractFromRegnskapApi of scrape-annual-reports.ts: the query without   *)
(* a year, the query of each year, and the reports built from the entries. *)
(***************************************************************************)
\* journalnr of the filings of the register.
Journals == {"J1", "J2"}

\* The year of regnskapsperiode.tilDato of a filing, 0 for a payload without
\* period dates.
PeriodYears == {0, CurrentYear - 1}

ApiIdle ==
    /\ yearJournalMap = <<>> /\ periodOf = <<>> /\ latestAnswer = Null /\ yearAnswer = <<>>
    /\ apiPc = "idle" /\ apiYear = 0 /\ entries = <<>>
    /\ seenYearJournalPairs = {} /\ apiReports = <<>>

ApiUnchanged ==
    /\ UNCHANGED <<yearJournalMap, periodOf, latestAnswer, yearAnswer>>
    /\ UNCHANGED <<pdfText, netResult, phase, pdfBuffer, retrieval, batchVars, ocrVars, fetcherVars, strategyVars, boundsVars, tempVars>>
    /\ UNCHANGED <<storeVars, pc, callVars, scrapeVars, pureVars>>

\* const duplicateKey = `${actualYear}-${journalNr || 'unknown'}`
DuplicateKey(actualYear, journalNr) == <<actualYear, journalNr>>

\* An entry is pushed unless its key has been seen.
PushEntry(actualYear, journalNr) ==
    IF DuplicateKey(actualYear, journalNr) \in seenYearJournalPairs
    THEN UNCHANGED <<entries, seenYearJournalPairs>>
    ELSE /\ seenYearJournalPairs' =
              seenYearJournalPairs \cup {DuplicateKey(actualYear, journalNr)}
         /\ entries' = Append(entries, [year |-> actualYear, journalnr |-> journalNr])

\* The year of the query without a year: that of the period, and the filing
\* is skipped without one or with one out of range.
ActualYearOfLatest(journalNr) ==
    IF periodOf[journalNr] = 0 \/ periodOf[journalNr] < MIN_YEAR
       \/ periodOf[journalNr] > CurrentYear + 1
    THEN Null
    ELSE Some(periodOf[journalNr])

\* The year of an answer to the query of a year: that of the period, and
\* without one the requested year (if (!actualYear) actualYear = year).
EntryYear(journalNr, requested) ==
    IF periodOf[journalNr] # 0 THEN periodOf[journalNr] ELSE requested

\* entries.sort((a, b) => b.year - a.year): one entry put into a sequence
\* sorted by year, newest first, behind the entries of its year.
InsertByYear(sorted, e) ==
    LET before == SelectSeq(sorted, LAMBDA x : x.year >= e.year)
        after == SelectSeq(sorted, LAMBDA x : x.year < e.year)
    IN before \o <<e>> \o after

RECURSIVE SortByYear(_, _)
SortByYear(es, n) ==
    IF n = 0 THEN <<>> ELSE InsertByYear(SortByYear(es, n - 1), es[n])

\* The loop over the sorted entries: an entry is skipped when its key
\* (year, journal number) has been processed.
RECURSIVE ProcessedEntries(_, _)
ProcessedEntries(es, n) ==
    IF n = 0 THEN <<>>
    ELSE LET done == ProcessedEntries(es, n - 1)
         IN IF \E k \in DOMAIN done :
                   DuplicateKey(done[k].year, done[k].journalnr)
                       = DuplicateKey(es[n].year, es[n].journalnr)
            THEN done
            ELSE Append(done, es[n])

\* extractFromWebsite for the years of the page, newest first: the Server
\* Action gives no JSON for a year, and a year with a journal number in the
\* HTML is asked for with ?journalnr= and the answer pushed as
\* { year, documents, raw: data }.  A page that answers 404 has no years.
extractFromWebsite(map) ==
    LET RECURSIVE FromYear(_)
        FromYear(y) ==
            IF y \notin DOMAIN map THEN <<>>
            ELSE (IF map[y] = Null THEN <<>>
                  ELSE <<[year |-> y, journalnr |-> CHOOSE j \in map[y] : TRUE]>>)
                 \o FromYear(y - 1)
    IN FromYear(CurrentYear)

\* const websiteEntries = await extractFromWebsite(orgnr, axios) and the loop
\* that pushes each entry under the key of entry.year and its journal number.
WebsiteEntries ==
    /\ apiPc = "website"
    /\ entries' = extractFromWebsite(yearJournalMap)
    /\ seenYearJournalPairs' =
           {DuplicateKey(entries'[k].year, entries'[k].journalnr) : k \in DOMAIN entries'}
    /\ apiPc' = "withoutYear"
    /\ UNCHANGED <<apiYear, apiReports>>
    /\ ApiUnchanged

\* The query without a year parameter: 404, or the filing the API holds.
QueryWithoutYear ==
    /\ apiPc = "withoutYear"
    /\ IF latestAnswer = Null
       THEN UNCHANGED <<entries, seenYearJournalPairs>>
       ELSE \E j \in latestAnswer :
                IF ActualYearOfLatest(j) = Null
                THEN UNCHANGED <<entries, seenYearJournalPairs>>
                ELSE \E y \in ActualYearOfLatest(j) : PushEntry(y, j)
    /\ apiPc' = "years"
    /\ apiYear' = CurrentYear
    /\ UNCHANGED apiReports
    /\ ApiUnchanged

\* One turn of the loop over yearsToCheck: 404 is no entry for the year,
\* another answer is an entry under its actual year.
QueryYear ==
    /\ apiPc = "years"
    /\ apiYear \in YearsToCheck
    /\ IF yearAnswer[apiYear] = Null
       THEN UNCHANGED <<entries, seenYearJournalPairs>>
       ELSE \E j \in yearAnswer[apiYear] : PushEntry(EntryYear(j, apiYear), j)
    /\ apiYear' = apiYear - 1
    /\ UNCHANGED <<apiPc, apiReports>>
    /\ ApiUnchanged

\* After the loop: [] without entries; else the entries sorted, filtered by
\* key, made reports and passed through dedupeReports.
BuildApiReports ==
    /\ apiPc = "years"
    /\ apiYear \notin YearsToCheck
    /\ apiReports' =
           dedupeReports(ProcessedEntries(SortByYear(entries, Len(entries)), Len(entries)))
    /\ apiPc' = "done"
    /\ UNCHANGED <<apiYear, entries, seenYearJournalPairs>>
    /\ ApiUnchanged

(***************************************************************************)
(* performOCR of scrape-pdf.ts: the first page of the temp PDF is rendered *)
(* to <orgnr>_<year>.1.png, recognised, and the image removed.             *)
(***************************************************************************)
\* The years performOCR is called for.
OcrYears == {CurrentYear - 2, CurrentYear - 1, CurrentYear}

OcrIdle ==
    /\ pdfFiles = {} /\ pngFiles = {} /\ ocrYear = 0 /\ ocrPc = "idle"
    /\ ocrReturned = <<>>

OcrUnchanged ==
    /\ UNCHANGED <<pdfText, netResult, phase, pdfBuffer, retrieval, batchVars, apiVars, fetcherVars, strategyVars, boundsVars, tempVars>>
    /\ UNCHANGED <<storeVars, pc, callVars, scrapeVars, pureVars>>

\* return text / return null of performOCR.
OcrReturn(o) ==
    /\ ocrReturned' = [ocrReturned EXCEPT ![ocrYear] = o]
    /\ ocrPc' = "idle"

\* performOCR(pdfPath, orgnr, year): null when the PDF is not there.
PerformOCR(y) ==
    /\ ocrPc = "idle"
    /\ ocrReturned[y] = "pending"
    /\ ocrYear' = y
    /\ IF y \in pdfFiles
       THEN /\ ocrPc' = "convert"
            /\ UNCHANGED ocrReturned
       ELSE /\ ocrReturned' = [ocrReturned EXCEPT ![y] = "null"]
            /\ ocrPc' = "idle"
    /\ UNCHANGED <<pdfFiles, pngFiles>>
    /\ OcrUnchanged

\* The Ghostscript command: it writes the image, or it fails or writes
\* nothing and performOCR returns null.
ConvertToImage ==
    /\ ocrPc = "convert"
    /\ \/ /\ pngFiles' = pngFiles \cup {ocrYear}
          /\ ocrPc' = "createWorker"
          /\ UNCHANGED ocrReturned
       \/ /\ OcrReturn("null")
          /\ UNCHANGED pngFiles
    /\ UNCHANGED <<pdfFiles, ocrYear>>
    /\ OcrUnchanged

\* worker = await createWorker('nor', ...): catch (workerError) returns null.
CreateWorker ==
    /\ ocrPc = "createWorker"
    /\ \/ /\ ocrPc' = "recognize"
          /\ UNCHANGED ocrReturned
       \/ OcrReturn("null")
    /\ UNCHANGED <<pdfFiles, pngFiles, ocrYear>>
    /\ OcrUnchanged

\* ocrResult = await worker.recognize(imagePath): catch (recognizeError)
\* terminates the worker and returns null.
Recognize ==
    /\ ocrPc = "recognize"
    /\ \/ /\ ocrPc' = "cleanUp"
          /\ UNCHANGED ocrReturned
       \/ OcrReturn("null")
    /\ UNCHANGED <<pdfFiles, pngFiles, ocrYear>>
    /\ OcrUnchanged

\* After the recognition: worker.terminate(), fs.unlinkSync(imagePath) when
\* the image exists, return text.
CleanUpImage ==
    /\ ocrPc = "cleanUp"
    /\ pngFiles' = pngFiles \ {ocrYear}
    /\ OcrReturn("text")
    /\ UNCHANGED <<pdfFiles, ocrYear>>
    /\ OcrUnchanged

(***************************************************************************)
(* BrregFetcher and main of the company fetch: the organisation numbers    *)
(* from /oppdateringer, the companies one by one in batches, and the       *)
(* paginated and bulk fallbacks.                                           *)
(***************************************************************************)
\* const RATE_LIMIT_DELAY = 100 (ms between requests)
RATE_LIMIT_DELAY == 100

\* const MAX_PAGINATION_RETRIES = 5
MAX_PAGINATION_RETRIES == 5

\* The organisation numbers of the register.
MaxOrgnr == 3

\* The size of a page of the upstream (1000 in the code).
PageSize == 2

\* const batchSize = 100 of fetchAllCompanies, cut down.
BatchSize == 2

\* The 1000 of (i + batchSize) % 1000 === 0, cut down with batchSize.
ProgressEvery == 4

\* The time from the start of a request to its answer.
MinLatency == 50
MaxLatency == 150

\* Elapsed times are counted up to this one.
MaxElapsed == 500

Orgnumre == 1..MaxOrgnr

\* The entities of /enheter, in the order of the pages.
Enheter == [i \in Orgnumre |-> i]

Latencies == {MinLatency, MaxLatency}

\* The answers of a request: the upstream answers, keeps failing with
\* timeouts or 5xx, or does now the one and now the other.
Outcomes ==
    CASE upstream = "up" -> {"ok"}
      [] upstream = "down" -> {"error"}
      [] OTHER -> {"ok", "error", "notFound", "limit"}

FetcherIdle ==
    /\ upstream = "up" /\ updates = <<>> /\ orgFile = Null /\ companiesFile = Null
    /\ fPc = "idle" /\ organisasjonsnumre = <<>> /\ page = 0 /\ retries = 0
    /\ loaded = {} /\ companies = {} /\ todo = <<>> /\ batchStart = 0 /\ issued = 0
    /\ sinceLast = -1 /\ requestTick = FALSE

FetcherUnchanged ==
    /\ UNCHANGED <<upstream, updates>>
    /\ UNCHANGED <<pdfText, netResult, phase, pdfBuffer, retrieval, batchVars, apiVars, ocrVars, strategyVars, boundsVars, tempVars>>
    /\ UNCHANGED <<storeVars, pc, callVars, scrapeVars, pureVars>>

\* The items of page p of a listing.
PageOf(listing, p) ==
    SubSeq(listing, p * PageSize + 1,
           IF (p + 1) * PageSize < Len(listing) THEN (p + 1) * PageSize ELSE Len(listing))

\* data._links?.next of page p.
HasNext(listing, p) == (p + 1) * PageSize < Len(listing)

SeqToSet(s) == {s[i] : i \in DOMAIN s}

\* The elements of s that are in keep, in the order of s.
FilterSeq(s, keep) == SelectSeq(s, LAMBDA x : x \in keep)

\* The time since the start of the request, d later.
Elapse(d) == IF d > MaxElapsed THEN MaxElapsed ELSE d

\* this.client.get(...): a request starts now.
Request == requestTick' = ~requestTick

\* saveProgress(companies): companies.json is written anew with the list.
saveProgress(list) == companiesFile' = Some(list)

\* main up to the choice of the source of the organisation numbers.
Main ==
    /\ fPc = "main"
    /\ IF orgFile # Null
       THEN /\ \E f \in orgFile : organisasjonsnumre' = f
            /\ fPc' = "afterOrgnumre"
       ELSE /\ organisasjonsnumre' = <<>>
            /\ fPc' = "oppdateringer"
    /\ page' = 0
    /\ UNCHANGED <<orgFile, companiesFile, retries, loaded, companies, todo,
                   batchStart, issued, sinceLast, requestTick>>
    /\ FetcherUnchanged

\* One turn of the while (hasMore) of fetchAllOrganisasjonsnumre: a page with
\* a next link is added and followed after sleep(delay); an empty page, a
\* last page and a 404 end the loop, and the numbers are saved; another error
\* sleeps 5 * delay and asks for the same page again.
FetchOppdateringer ==
    /\ fPc = "oppdateringer"
    /\ Request
    /\ \E o \in Outcomes \ {"limit"}, l \in Latencies :
          LET items == PageOf(updates, page)
              found == organisasjonsnumre \o items
          IN CASE o = "ok" /\ items # <<>> /\ HasNext(updates, page) ->
                    /\ organisasjonsnumre' = found
                    /\ page' = page + 1
                    /\ sinceLast' = Elapse(l + RATE_LIMIT_DELAY)
                    /\ UNCHANGED <<fPc, orgFile>>
               [] o = "ok" /\ items # <<>> /\ ~HasNext(updates, page) ->
                    /\ organisasjonsnumre' = found
                    /\ orgFile' = Some(found)
                    /\ fPc' = "afterOrgnumre"
                    /\ sinceLast' = Elapse(l)
                    /\ UNCHANGED page
               [] (o = "ok" /\ items = <<>>) \/ o = "notFound" ->
                    /\ orgFile' = Some(organisasjonsnumre)
                    /\ fPc' = "afterOrgnumre"
                    /\ sinceLast' = Elapse(l)
                    /\ UNCHANGED <<organisasjonsnumre, page>>
               [] OTHER ->
                    /\ sinceLast' = Elapse(l + RATE_LIMIT_DELAY * 5)
                    /\ UNCHANGED <<fPc, orgFile, organisasjonsnumre, page>>
    /\ UNCHANGED <<companiesFile, retries, loaded, companies, todo, batchStart, issued>>
    /\ FetcherUnchanged

\* main after the organisation numbers: without any, the paginated fetch on
\* top of the companies of the file; else the companies of the file are
\* loaded and the missing ones fetched, or all are fetched.
AfterOrgnumre ==
    /\ fPc = "afterOrgnumre"
    /\ IF organisasjonsnumre = <<>>
       THEN /\ companies' = (IF companiesFile = Null THEN {} ELSE UNION companiesFile)
            /\ page' = 0
            /\ retries' = 0
            /\ fPc' = "paginated"
            /\ UNCHANGED <<loaded, todo>>
       ELSE /\ loaded' = (IF companiesFile = Null THEN {} ELSE UNION companiesFile)
            /\ todo' = FilterSeq(organisasjonsnumre, Orgnumre \ loaded')
            /\ companies' = {}
            /\ fPc' = (IF todo' = <<>> THEN "done" ELSE "fetchAllCompanies")
            /\ UNCHANGED <<page, retries>>
    /\ batchStart' = 0
    /\ issued' = 0
    /\ UNCHANGED <<orgFile, companiesFile, organisasjonsnumre, sinceLast, requestTick>>
    /\ FetcherUnchanged

\* batch = organisasjonsnumre.slice(i, i + batchSize)
Batch == SubSeq(todo, batchStart + 1,
                IF batchStart + BatchSize < Len(todo) THEN batchStart + BatchSize ELSE Len(todo))

\* batch.map(orgnr => this.fetchEnhet(orgnr)): each call of fetchEnhet starts
\* its GET at once, the next one before any answer or sleep.
StartFetchEnhet ==
    /\ fPc = "fetchAllCompanies"
    /\ issued < Len(Batch)
    /\ Request
    /\ sinceLast' = 0
    /\ issued' = issued + 1
    /\ UNCHANGED <<orgFile, companiesFile, fPc, organisasjonsnumre, page, retries,
                   loaded, companies, todo, batchStart>>
    /\ FetcherUnchanged

\* await Promise.all(promises): each fetchEnhet gives its company after
\* sleep(delay), or null; the companies are pushed, the progress is saved
\* every 1000 and at the end, and the loop goes to the next batch.
AwaitBatch ==
    /\ fPc = "fetchAllCompanies"
    /\ issued = Len(Batch)
    /\ \E got \in SUBSET SeqToSet(Batch), l \in Latencies :
          /\ upstream = "up" => got = SeqToSet(Batch)
          /\ upstream = "down" => got = {}
          /\ companies' = companies \cup got
          /\ sinceLast' = Elapse(l + RATE_LIMIT_DELAY)
          /\ IF (batchStart + BatchSize) % ProgressEvery = 0
                \/ batchStart + BatchSize >= Len(todo)
             THEN saveProgress(companies')
             ELSE UNCHANGED companiesFile
    /\ batchStart' = batchStart + BatchSize
    /\ issued' = 0
    /\ fPc' = (IF batchStart' >= Len(todo) THEN "saveAll" ELSE "fetchAllCompanies")
    /\ UNCHANGED <<orgFile, organisasjonsnumre, page, retries, loaded, todo, requestTick>>
    /\ FetcherUnchanged

\* main after fetchAllCompanies: companies = [...companies, ...missing],
\* saveProgress(companies).
SaveAll ==
    /\ fPc = "saveAll"
    /\ saveProgress(loaded \cup companies)
    /\ fPc' = "done"
    /\ UNCHANGED <<orgFile, organisasjonsnumre, page, retries, loaded, companies,
                   todo, batchStart, issued, sinceLast, requestTick>>
    /\ FetcherUnchanged

\* One turn of the while (nextPath) of fetchAllCompaniesPaginated: the new
\* entities of a page are pushed and the progress saved; the next link is
\* followed after sleep(delay) with retries = 0; an empty page or a last page
\* ends the loop; the pagination limit is thrown on; another error counts a
\* retry and ends the loop at MAX_PAGINATION_RETRIES, else sleeps 5 * delay.
FetchPaginated ==
    /\ fPc = "paginated"
    /\ Request
    /\ \E o \in Outcomes, l \in Latencies :
          LET items == PageOf(Enheter, page)
          IN CASE o = "ok" /\ items = <<>> ->
                    /\ fPc' = "savePaginated"
                    /\ sinceLast' = Elapse(l)
                    /\ UNCHANGED <<companies, companiesFile, page, retries>>
               [] o = "ok" /\ items # <<>> ->
                    /\ companies' = companies \cup SeqToSet(items)
                    /\ saveProgress(companies')
                    /\ IF HasNext(Enheter, page)
                       THEN /\ page' = page + 1
                            /\ retries' = 0
                            /\ sinceLast' = Elapse(l + RATE_LIMIT_DELAY)
                            /\ UNCHANGED fPc
                       ELSE /\ fPc' = "savePaginated"
                            /\ sinceLast' = Elapse(l)
                            /\ UNCHANGED <<page, retries>>
               [] o = "limit" ->
                    /\ fPc' = "bulk"
                    /\ sinceLast' = Elapse(l)
                    /\ UNCHANGED <<companies, companiesFile, page, retries>>
               [] OTHER ->
                    /\ retries' = retries + 1
                    /\ IF retries' >= MAX_PAGINATION_RETRIES
                       THEN /\ fPc' = "savePaginated"
                            /\ sinceLast' = Elapse(l)
                       ELSE /\ sinceLast' = Elapse(l + RATE_LIMIT_DELAY * 5)
                            /\ UNCHANGED fPc
                    /\ UNCHANGED <<companies, companiesFile, page>>
    /\ UNCHANGED <<orgFile, organisasjonsnumre, loaded, todo, batchStart, issued>>
    /\ FetcherUnchanged

\* main after fetchAllCompaniesPaginated: saveProgress(companies) and
\* saveOrganisasjonsnumre of their numbers.
SavePaginated ==
    /\ fPc = "savePaginated"
    /\ saveProgress(companies)
    /\ orgFile' = Some(FilterSeq(Enheter, companies))
    /\ fPc' = "done"
    /\ UNCHANGED <<organisasjonsnumre, page, retries, loaded, companies, todo,
                   batchStart, issued, sinceLast, requestTick>>
    /\ FetcherUnchanged

\* downloadBulkDataset after a PaginationLimitError: the whole register is
\* written to companies.json and its numbers to the other file, or the
\* download fails and main exits.
DownloadBulk ==
    /\ fPc = "bulk"
    /\ Request
    /\ \E o \in Outcomes \ {"limit", "notFound"}, l \in Latencies :
          /\ sinceLast' = Elapse(l)
          /\ IF o = "ok"
             THEN /\ saveProgress(Orgnumre)
                  /\ orgFile' = Some(Enheter)
                  /\ fPc' = "done"
             ELSE /\ fPc' = "exit"
                  /\ UNCHANGED <<orgFile, companiesFile>>
    /\ UNCHANGED <<organisasjonsnumre, page, retries, loaded, companies, todo,
                   batchStart, issued>>
    /\ FetcherUnchanged

(***************************************************************************)
(* extractSalgsinntektFromPdfText: the pattern loop over the whole text,   *)
(* then the scan of the lines around a line with a keyword.                *)
(***************************************************************************)
SALGSINNTEKT == <<"s", "a", "l", "g", "s", "i", "n", "n", "t", "e", "k", "t">>

OMSETNING == <<"o", "m", "s", "e", "t", "n", "i", "n", "g">>

DRIFTSINNTEKT == <<"d", "r", "i", "f", "t", "s", "i", "n", "n", "t", "e", "k", "t">>

TOTAL == <<"t", "o", "t", "a", "l">>

INNTEKT == <<"i", "n", "n", "t", "e", "k", "t">>

\* The capture of /total\s*inntekt[:\s]+(...)/i: the two words with or
\* without white space between them.
TotalInntektCapture(text) ==
    LET End(p) == IF PhraseEnd(text, p, <<TOTAL, INNTEKT>>) # 0
                  THEN PhraseEnd(text, p, <<TOTAL, INNTEKT>>)
                  ELSE PhraseEnd(text, p, <<TOTAL \o INNTEKT>>)
        Cap(p) == IF End(p) = 0 \/ RunEnd(text, End(p), "[:\\s]") = End(p) THEN Null
                  ELSE NumeralPrefix(SubSeq(text, RunEnd(text, End(p), "[:\\s]"), Len(text)))
    IN IF \E p \in 1..Len(text) : Cap(p) # Null
       THEN Cap(CHOOSE p \in 1..Len(text) : Cap(p) # Null /\ \A m \in 1..(p - 1) : Cap(m) = Null)
       ELSE Null

\* The captures of salgsinntektPatterns in their order.  The patterns with
\* \d{4,12}, with periods and with \s*\n\s* match only where the pattern of
\* their label with [:\s]+ matches, which stands before them and whose
\* capture always parses, so they never decide.
SalgsinntektCaptures(text) ==
    <<PhraseCapture(text, <<SALGSINNTEKT>>),
      PhraseCapture(text, <<OMSETNING>>),
      PhraseCapture(text, <<DRIFTSINNTEKT>>),
      TotalInntektCapture(text),
      PhraseCapture(text, <<INNTEKT>>)>>

\* salgsinntektKeywords.some(keyword => line.includes(keyword))
HasSalgsinntektKeyword(line) ==
    \E k \in {SALGSINNTEKT, OMSETNING, DRIFTSINNTEKT, TOTAL \o <<" ">> \o INNTEKT,
              TOTAL \o INNTEKT} : LineIncludes(line, k)

\* The value of a capture that passes parsedValue > 1000.
AboveThousandValue(c) ==
    IF c # Null /\ \E n \in ParsedValue(CHOOSE x \in c : TRUE) : n > 1000
    THEN ParsedValue(CHOOSE x \in c : TRUE)
    ELSE Null

\* The lines j of the inner loop for the keyword line i (both from 1):
\* for (let j = Math.max(0, i - 1); j < Math.min(i + 5, lines.length); j++)
ScannedLines(lines, i) ==
    (IF i - 1 > 1 THEN i - 1 ELSE 1)..(IF i + 4 < Len(lines) THEN i + 4 ELSE Len(lines))

\* The value the inner loop finds for the keyword line i: that of the first
\* scanned line whose first numeral is above 1000.
SalgsinntektLineValue(lines, i) ==
    LET Val(j) == AboveThousandValue(FirstNumeralCapture(lines[j]))
        js == ScannedLines(lines, i)
    IN IF HasSalgsinntektKeyword(lines[i]) /\ \E j \in js : Val(j) # Null
       THEN Val(CHOOSE j \in js : Val(j) # Null /\ \A m \in js : m < j => Val(m) = Null)
       ELSE Null

\* extractSalgsinntektFromPdfText(pdfText, orgnr, year)
extractSalgsinntekt(text) ==
    LET caps == SalgsinntektCaptures(text)
        lines == Split(text, "\n")
        Val(i) == SalgsinntektLineValue(lines, i)
    IN IF \E k \in 1..Len(caps) : caps[k] # Null
       THEN ParsedValue(CHOOSE c \in caps[CHOOSE k \in 1..Len(caps) :
                                    caps[k] # Null /\ \A m \in 1..(k - 1) : caps[m] = Null] : TRUE)
       ELSE IF \E i \in 1..Len(lines) : Val(i) # Null
       THEN Val(CHOOSE i \in 1..Len(lines) : Val(i) # Null /\ \A m \in 1..(i - 1) : Val(m) = Null)
       ELSE Null

\* The texts: a line before the line of the word, the word with what follows
\* it on its line, and a line after it.
LinesBefore == {<<>>, <<"1", "2", " ", "5", "0", "0">>, <<"N", "o", "t", "e", " ", "7">>}

RevenueWords ==
    {<<"S", "a", "l", "g", "s", "i", "n", "n", "t", "e", "k", "t">>,
     <<"O", "m", "s", "e", "t", "n", "i", "n", "g">>,
     <<"S", "u", "m">>}

RevenueLabels == {w \in RevenueWords : HasSalgsinntektKeyword(w)}

LineTails == {<<>>, <<":", " ", "3", "4", "8", " ", "1", "9", "7">>, <<" ", "k", "r">>,
              <<" ", "(", "n", "o", "t", "e", " ", "2", ")">>}

LinesAfter == {<<>>, <<"9", "0", " ", "0", "0", "0">>, <<"k", "r", " ", "9", "0", " ", "0", "0", "0">>}

RevenueTexts == [before : LinesBefore, word : RevenueWords, tail : LineTails, after : LinesAfter]

\* The text of the parts.
RevenueTextOf(t) == t.before \o <<"\n">> \o t.word \o t.tail \o <<"\n">> \o t.after

\* The number the first numeral of a line stands for, Null without one.
LineNumber(line) ==
    IF FirstNumeralCapture(line) = Null THEN Null
    ELSE ParsedValue(CHOOSE x \in FirstNumeralCapture(line) : TRUE)

\* The revenue extractor applied to the text of a PDF.
ExtractSalgsinntekt ==
    /\ phase = "input"
    /\ pdfText \in RevenueTexts
    /\ netResult' = extractSalgsinntekt(RevenueTextOf(pdfText))
    /\ phase' = "extractSalgsinntektFromPdfText"
    /\ UNCHANGED <<pdfText, pdfBuffer, retrieval, runVars>>
    /\ UNCHANGED <<storeVars, pc, callVars, scrapeVars, pureVars>>

(***************************************************************************)
(* parsePdfAndExtractAarsresultat from pdf(pdfData) on: the text layer,    *)
(* the choice of optical recognition, the extractors.                      *)
(***************************************************************************)
\* if (pdfText.length < 50)
MIN_TEXT_LENGTH == 50

\* The lengths of the text layer.
TextLengths == {0, MIN_TEXT_LENGTH - 1, MIN_TEXT_LENGTH, MIN_TEXT_LENGTH + 1}

\* A text layer of n characters.
TextLayer(n) == [i \in 1..n |-> "x"]

NeedsOcr_ShortText(text, data) == Len(text) < MIN_TEXT_LENGTH

\* pdfText.length < 50 and pdfHasContent = pdfData.length > 10000
NeedsOcr(text, data) ==
    Len(text) < MIN_TEXT_LENGTH /\ PdfDataLength(data) > OCR_PDF_SIZE

\* const pdfDoc = await pdf(pdfData) on the bytes written to the temp file,
\* and what follows: a parse error is returned; a short text of a large PDF
\* calls performOCR and a short text of a small one is returned as too short;
\* else the extractors run on the text and the temp file is deleted.
PdfTextLayer ==
    /\ phase = "parsePdfAndExtractAarsresultat"
    /\ retrieval.toParser
    /\ \/ /\ phase' = "parseError"
          /\ pdfFiles' = {CurrentYear}
          /\ UNCHANGED <<pdfText, ocrYear, ocrPc>>
       \/ \E n \in TextLengths :
             /\ pdfText' = TextLayer(n)
             /\ IF NeedsOcr(pdfText', pdfBuffer)
                THEN /\ ocrYear' = CurrentYear
                     /\ ocrPc' = "convert"
                     /\ pdfFiles' = {CurrentYear}
                     /\ phase' = "performOCR"
                ELSE IF Len(pdfText') < MIN_TEXT_LENGTH
                THEN /\ pdfFiles' = {CurrentYear}
                     /\ phase' = "tooShort"
                     /\ UNCHANGED <<ocrYear, ocrPc>>
                ELSE /\ pdfFiles' = {}
                     /\ phase' = "extractors"
                     /\ UNCHANGED <<ocrYear, ocrPc>>
    /\ UNCHANGED <<netResult, pdfBuffer, retrieval, pngFiles, ocrReturned>>
    /\ UNCHANGED <<batchVars, apiVars, fetcherVars, strategyVars, boundsVars, tempVars>>
    /\ UNCHANGED <<storeVars, pc, callVars, scrapeVars, pureVars>>

(***************************************************************************)
(* fetchAnnualReports after extractFromRegnskapApi returned no report: the *)
(* rendered page, its PDF links, and the extractors of the HTML.           *)
(***************************************************************************)
\* The extractors that work on a loaded HTML document.
HtmlStrategies == {"nextData", "dom", "bodyText"}

StrategyIdle ==
    /\ renderedFinds = {} /\ staticFinds = {} /\ strategyPc = "idle"
    /\ tried = <<>> /\ returnedFrom = Null

StrategyUnchanged ==
    /\ UNCHANGED <<renderedFinds, staticFinds>>
    /\ UNCHANGED <<pdfText, netResult, phase, pdfBuffer, retrieval, batchVars, apiVars, ocrVars, fetcherVars, boundsVars, tempVars>>
    /\ UNCHANGED <<storeVars, pc, callVars, scrapeVars, pureVars>>

\* if (x.length) { await enrichReportsWithPdfData(x, orgnr); return x; }
ReturnOrGoOn(strategy, finds, next) ==
    /\ tried' = Append(tried, strategy)
    /\ IF strategy \in finds
       THEN returnedFrom' = Some(strategy) /\ strategyPc' = "returned"
       ELSE returnedFrom' = returnedFrom /\ strategyPc' = next

\* const browser = await puppeteer.launch(...): outside the try, a rejection
\* leaves fetchAnnualReports.
LaunchPuppeteer ==
    /\ strategyPc = "launch"
    /\ \/ strategyPc' = "evaluate"
       \/ strategyPc' = "thrown"
    /\ UNCHANGED <<tried, returnedFrom>>
    /\ StrategyUnchanged

\* page.goto, the expansion of the section and page.evaluate over the
\* anchors of the rendered page: reports of source 'puppeteer-js' are
\* returned when there are any; a timeout or an exception goes to the catch.
EvaluatePdfLinks ==
    /\ strategyPc = "evaluate"
    /\ \/ ReturnOrGoOn("puppeteer-js", renderedFinds, "rendered-nextData")
       \/ /\ strategyPc' = "axios"
          /\ UNCHANGED <<tried, returnedFrom>>
    /\ StrategyUnchanged

\* const html = await page.content(); extractAnnualReportsFromNextData
RenderedNextData ==
    /\ strategyPc = "rendered-nextData"
    /\ \/ ReturnOrGoOn("nextData", renderedFinds, "rendered-dom")
       \/ /\ strategyPc' = "axios"
          /\ UNCHANGED <<tried, returnedFrom>>
    /\ StrategyUnchanged

\* extractAnnualReportsFromDom on the rendered HTML.
RenderedDom ==
    /\ strategyPc = "rendered-dom"
    /\ ReturnOrGoOn("dom", renderedFinds, "rendered-bodyText")
    /\ StrategyUnchanged

\* extractFromBodyText on the rendered HTML, then return [].
RenderedBodyText ==
    /\ strategyPc = "rendered-bodyText"
    /\ ReturnOrGoOn("bodyText", renderedFinds, "returned")
    /\ StrategyUnchanged

\* The catch: axios.get(url) rejects and fetchAnnualReports throws, or the
\* HTML of the response goes to extractAnnualReportsFromNextData.
AxiosNextData ==
    /\ strategyPc = "axios"
    /\ \/ /\ strategyPc' = "thrown"
          /\ UNCHANGED <<tried, returnedFrom>>
       \/ ReturnOrGoOn("nextData", staticFinds, "axios-dom")
    /\ StrategyUnchanged

\* extractAnnualReportsFromDom on the HTML of the response.
AxiosDom ==
    /\ strategyPc = "axios-dom"
    /\ ReturnOrGoOn("dom", staticFinds, "axios-bodyText")
    /\ StrategyUnchanged

\* extractFromBodyText on the HTML of the response, then return [].
AxiosBodyText ==
    /\ strategyPc = "axios-bodyText"
    /\ ReturnOrGoOn("bodyText", staticFinds, "returned")
    /\ StrategyUnchanged

(***************************************************************************)
(* fetchRegnskapApiEntries and deriveYearBounds of regnskap-api.ts.        *)
(***************************************************************************)
DEFAULT_LOOKBACK_YEARS == 10

\* The keys of the latest filing that deriveYearBounds reads, in its order.
LatestKeys == 5

\* The keys of the latest filing that hold a value in the answers.
MaxLatestKeys == 2

\* stiftelsesdato: absent, in the past, recent, in the future, unparsable,
\* and a number.
StiftelsesdatoValues ==
    {Undefined,
     Str(<<"1", "9", "8", "5", "-", "0", "3", "-", "0", "1">>),
     Str(<<"2", "0", "2", "0", "-", "0", "6", "-", "1", "5">>),
     Str(<<"2", "0", "3", "1", "-", "0", "1", "-", "0", "1">>),
     Str(<<"u", "k", "j", "e", "n", "t">>),
     Num(0)}

\* The value of a key of the latest filing: absent, a past year, a future
\* year, unparsable.
LatestValues ==
    {Undefined, Str(<<"2", "0", "2", "3">>), Str(<<"2", "0", "3", "1">>), Str(<<"-">>)}

\* The answers of GET /enhetsregisteret/api/enheter/{orgnr}.
Metadatas ==
    {[stiftelsesdato |-> s, stiftelsesdatoEnhetsregisteret |-> e, latest |-> l] :
        s \in StiftelsesdatoValues,
        e \in {Undefined, Str(<<"1", "9", "9", "5">>)},
        l \in {q \in [1..LatestKeys -> LatestValues] :
                  \A k \in (MaxLatestKeys + 1)..LatestKeys : q[k] = Undefined}}

\* The first years with an entry in the Regnskapsregisteret: one year ago,
\* long ago, never.
FirstFilings == {CurrentYear - 1, MIN_YEAR, CurrentYear + 100}

BoundsIdle ==
    /\ metadata = Null /\ firstFiling = 0 /\ maxResults = 0 /\ minYear = 0 /\ maxYear = 0
    /\ loopYear = 0 /\ queried = <<>> /\ collected = 0 /\ boundsPc = "idle"

BoundsUnchanged ==
    /\ UNCHANGED <<metadata, firstFiling, maxResults>>
    /\ UNCHANGED <<pdfText, netResult, phase, pdfBuffer, retrieval>>
    /\ UNCHANGED <<batchVars, apiVars, ocrVars, fetcherVars, strategyVars, tempVars>>
    /\ UNCHANGED <<storeVars, pc, callVars, scrapeVars, pureVars>>

MathMax(a, b) == IF a > b THEN a ELSE b

\* metadata.stiftelsesdato || metadata.stiftelsesdatoEnhetsregisteret
StiftelsesdatoOf(md) ==
    IF Truthy(md.stiftelsesdato) THEN md.stiftelsesdato ELSE md.stiftelsesdatoEnhetsregisteret

\* if (stiftYear) { minYear = Math.max(stiftYear, MIN_YEAR) }
MinYearOf(md) ==
    LET stiftYear == parseYear(StiftelsesdatoOf(md))
    IN IF TruthyYear(stiftYear)
       THEN MathMax(CHOOSE y \in stiftYear : TRUE, MIN_YEAR)
       ELSE MathMax(MIN_YEAR, CurrentYear - DEFAULT_LOOKBACK_YEARS)

\* for (const key of latestKeys): the first key whose value parses to a year
\* gives maxYear = Math.max(year, minYear), and without one maxYear stays
\* the current year.
MaxYearOf(md, minY) ==
    LET Parsed(k) == TruthyYear(parseYear(md.latest[k]))
    IN IF \E k \in 1..LatestKeys : Parsed(k)
       THEN LET k == CHOOSE i \in 1..LatestKeys : Parsed(i) /\ \A j \in 1..(i - 1) : ~Parsed(j)
            IN MathMax(CHOOSE y \in parseYear(md.latest[k]) : TRUE, minY)
       ELSE CurrentYear

ReorderedMinYear_Kept(minY, maxY) == minY

\* if (minYear > maxYear) { minYear = Math.max(MIN_YEAR, maxYear - 10) }
ReorderedMinYear(minY, maxY) ==
    IF minY > maxY THEN MathMax(MIN_YEAR, maxY - DEFAULT_LOOKBACK_YEARS) ELSE minY

\* deriveYearBounds(orgnr): the defaults when fetchCompanyMetadata throws.
deriveYearBounds(answer) ==
    IF answer = Null
    THEN [minYear |-> ReorderedMinYear(MathMax(MIN_YEAR, CurrentYear - DEFAULT_LOOKBACK_YEARS), CurrentYear),
          maxYear |-> CurrentYear]
    ELSE LET md == CHOOSE x \in answer : TRUE
             minY == MinYearOf(md)
             maxY == MaxYearOf(md, minY)
         IN [minYear |-> ReorderedMinYear(minY, maxY), maxYear |-> maxY]

\* const { minYear, maxYear } = await deriveYearBounds(orgnr);
\* for (let year = maxYear; ...
DeriveYearBounds ==
    /\ boundsPc = "deriveYearBounds"
    /\ minYear' = deriveYearBounds(metadata).minYear
    /\ maxYear' = deriveYearBounds(metadata).maxYear
    /\ loopYear' = maxYear'
    /\ boundsPc' = "loop"
    /\ UNCHANGED <<queried, collected>>
    /\ BoundsUnchanged

\* The body of the loop: fetchRegnskapForYear(orgnr, year), the push of an
\* entry, the break at maxResults, and year -= 1.
FetchRegnskapForYear ==
    /\ boundsPc = "loop"
    /\ loopYear >= minYear
    /\ queried' = Append(queried, loopYear)
    /\ collected' = IF loopYear >= firstFiling /\ loopYear <= CurrentYear THEN collected + 1 ELSE collected
    /\ IF collected' > collected /\ collected' >= maxResults
       THEN boundsPc' = "returned" /\ loopYear' = loopYear
       ELSE boundsPc' = "loop" /\ loopYear' = loopYear - 1
    /\ UNCHANGED <<minYear, maxYear>>
    /\ BoundsUnchanged

\* year >= minYear fails: return entries.
ReturnEntries ==
    /\ boundsPc = "loop"
    /\ loopYear < minYear
    /\ boundsPc' = "returned"
    /\ UNCHANGED <<minYear, maxYear, loopYear, queried, collected>>
    /\ BoundsUnchanged

(***************************************************************************)
(* Two calls of parsePdfAndExtractAarsresultat for one (orgnr, year), each *)
(* from a POST /api/scrape-pdf, over the files `${orgnr}_${year}.pdf` and  *)
(* `${orgnr}_${year}.1.png` of PDF_TEMP_DIR.                               *)
(***************************************************************************)
TempIdle ==
    /\ tempPdf = Null /\ tempImage = Null /\ parsePc = <<>>
    /\ gsInput = <<>> /\ ocrInput = <<>>

TempUnchanged ==
    /\ UNCHANGED <<pdfText, netResult, phase, pdfBuffer, retrieval>>
    /\ UNCHANGED <<batchVars, apiVars, ocrVars, fetcherVars, strategyVars, boundsVars>>
    /\ UNCHANGED <<storeVars, pc, callVars, scrapeVars, pureVars>>

At(p, loc) == parsePc' = [parsePc EXCEPT ![p] = loc]

\* The bytes a reader finds at a path.
ReadFile(file) == IF file = Null THEN "missing" ELSE CHOOSE w \in file : TRUE

\* if (fs.existsSync(tempPdfPath)) { fs.unlinkSync(tempPdfPath) }
UnlinkTempPdf == tempPdf' = Null

\* fs.writeFileSync(tempPdfPath, pdfData), up to the await of pdf(pdfData).
WriteTempPdf(p) ==
    /\ parsePc[p] = "response"
    /\ tempPdf' = Some(p)
    /\ At(p, "pdf")
    /\ UNCHANGED <<tempImage, gsInput, ocrInput>>
    /\ TempUnchanged

\* pdf(pdfData) is over: a parse error is returned; a text of 50 characters
\* or more goes through the extractors and the temp file is deleted; a short
\* text of a large PDF calls performOCR, which returns null when the PDF is
\* not there and else starts Ghostscript on the path; a short text of a small
\* PDF is returned.
AfterPdfParse(p) ==
    /\ parsePc[p] = "pdf"
    /\ \/ At(p, "returned") /\ UNCHANGED tempPdf
       \/ At(p, "returned") /\ UnlinkTempPdf
       \/ /\ UNCHANGED tempPdf
          /\ IF tempPdf = Null THEN At(p, "returned") ELSE At(p, "gs")
    /\ UNCHANGED <<tempImage, gsInput, ocrInput>>
    /\ TempUnchanged

\* The gs process reads the PDF of the path and writes the page image; when
\* it fails, or no image is there, performOCR returns null.  Else the worker
\* is awaited.
Ghostscript(p) ==
    /\ parsePc[p] = "gs"
    /\ gsInput' = [gsInput EXCEPT ![p] = ReadFile(tempPdf)]
    /\ IF tempPdf = Null
       THEN At(p, "returned") /\ UNCHANGED tempImage
       ELSE \/ At(p, "createWorker") /\ tempImage' = tempPdf
            \/ At(p, "returned") /\ UNCHANGED tempImage
    /\ UNCHANGED <<tempPdf, ocrInput>>
    /\ TempUnchanged

\* if (!fs.existsSync(imagePath)) return null, checked right after the gs
\* process; createWorker('nor', ...) resolves or rejects.
CreateTesseractWorker(p) ==
    /\ parsePc[p] = "createWorker"
    /\ \/ At(p, "recognize")
       \/ At(p, "returned")
    /\ UNCHANGED <<tempPdf, tempImage, gsInput, ocrInput>>
    /\ TempUnchanged

\* worker.recognize(imagePath) reads the image of the path; it throws for a
\* missing image and performOCR returns null.
RecognizeImage(p) ==
    /\ parsePc[p] = "recognize"
    /\ ocrInput' = [ocrInput EXCEPT ![p] = ReadFile(tempImage)]
    /\ IF tempImage = Null THEN At(p, "returned") ELSE At(p, "terminate")
    /\ UNCHANGED <<tempPdf, tempImage, gsInput>>
    /\ TempUnchanged

\* After worker.terminate(): the image is deleted when it exists and the
\* text returned; the extractors run and the store is updated.
UnlinkImage(p) ==
    /\ parsePc[p] = "terminate"
    /\ tempImage' = Null
    /\ At(p, "update")
    /\ UNCHANGED <<tempPdf, gsInput, ocrInput>>
    /\ TempUnchanged

\* updateAnnualReportInDatabase is over: the temp PDF is deleted when it
\* exists and the figures returned; without a figure, or when the update
\* threw, the call returns and the PDF stays.
AfterOcrUpdate(p) ==
    /\ parsePc[p] = "update"
    /\ \/ UnlinkTempPdf
       \/ UNCHANGED tempPdf
    /\ At(p, "returned")
    /\ UNCHANGED <<tempImage, gsInput, ocrInput>>
    /\ TempUnchanged

(***************************************************************************)
(* Initial values.                                                         *)
(***************************************************************************)
DedupeIdle == reports = <<>> /\ pdfLinks = <<>> /\ mergedReports = <<>>

YearIdle == candidate = <<>> /\ requestedYear = 0 /\ entryYear = Null

UrlIdle == rawDocuments = <<>> /\ documents = <<>>

ParseIdle == numeral = <<>> /\ parsed = Null

\* No operation of the pipeline has run.
PipelineInit ==
    /\ pdfText = <<>> /\ netResult = Null /\ phase = "input"
    /\ pdfBuffer = NoBuffer /\ retrieval = NoRetrieval
    /\ BatchIdle /\ ApiIdle /\ OcrIdle /\ FetcherIdle /\ StrategyIdle /\ BoundsIdle /\ TempIdle

PureInit == DedupeIdle /\ YearIdle /\ UrlIdle /\ ParseIdle /\ step = "input"

(***************************************************************************)
(* The batch scraper alone: upsertAnnualReport called again and again      *)
(* while the database clock advances.                                      *)
(***************************************************************************)
InitUpsert == StoreInit /\ CallInit /\ ScrapeInit /\ PipelineInit /\ PureInit

NextUpsert ==
    \/ BatchUpsert
    \/ Tick

SpecUpsert == InitUpsert /\ [][NextUpsert]_vars

\* C4: upserting a payload over a row that already holds that payload for the
\* same (organisasjonsnummer, ar) leaves exactly one row for the key, with the
\* same key and payload and a scraped_at that is not earlier than before, and
\* leaves every other row as it was.
UpsertIsIdempotent ==
    [][\A y \in Years, d \in ApiPayloads :
         (UpsertAnnualReport(y, d) /\ \E r \in RowsFor(table, Orgnr, y) : r.data = d)
         => /\ Cardinality(RowsFor(table', Orgnr, y)) = 1
            /\ \A r \in RowsFor(table, Orgnr, y), s \in RowsFor(table', Orgnr, y) :
                  /\ s.organisasjonsnummer = r.organisasjonsnummer
                  /\ s.ar = r.ar
                  /\ s.data = r.data
                  /\ s.scraped_at >= r.scraped_at
            /\ table' \ RowsFor(table', Orgnr, y) = table \ RowsFor(table, Orgnr, y)]_vars

\* A payload has been upserted over a row holding the same payload, at a later
\* time, next to a row of the other year.
UpsertedSamePayloadTwice ==
    /\ lastWrite.op = "upsert"
    /\ \E b \in lastWrite.before, r \in RowsFor(table, Orgnr, lastWrite.ar) :
          r.data = b.data /\ r.scraped_at > b.scraped_at
    /\ \E r \in table : r.ar # lastWrite.ar

(***************************************************************************)
(* The writers of the report store running together on one key: two        *)
(* requests inside updateAnnualReportInDatabase and the batch upsert.      *)
(***************************************************************************)
InitStore == StoreInit /\ CallInit /\ ScrapeInit /\ PipelineInit /\ PureInit

NextStore ==
    \/ \E p \in Requests : RequestUpdate(p)
    \/ \E p \in Requests : DbSelect(p)
    \/ \E p \in Requests : DbWrite(p)
    \/ \E p \in Requests : DbReturn(p)
    \/ BatchUpsertSameKey
    \/ Tick

SpecStore == InitStore /\ [][NextStore]_vars

\* C5: whatever the interleaving of the writers of one key, no writer fails
\* with a key conflict, the key has at most one row, and a write leaves every
\* figure in the row that the row held just before it.
WritesConflictFree ==
    /\ \A p \in Requests : dbError[p] # "unique_violation"
    /\ \A y \in Years : Cardinality(RowsFor(table, Orgnr, y)) <= 1
    /\ lastWrite.op = "update" =>
          \A b \in lastWrite.before, r \in RowsFor(table, Orgnr, lastWrite.ar) :
             \A f \in FigureNames : b.data.figures[f] # Null => r.data.figures[f] = b.data.figures[f]

\* C6: a write that changes the payload of an existing row sets the row's
\* scraped_at to the time of the write.
PayloadChangeRefreshesScrapedAt ==
    lastWrite.op \in {"update", "upsert"} =>
       \A b \in lastWrite.before, r \in RowsFor(table, Orgnr, lastWrite.ar) :
          r.data # b.data => r.scraped_at = now

(***************************************************************************)
(* Requests running scrapePdfForYear against a store that the batch        *)
(* scraper may have filled before.                                         *)
(***************************************************************************)
InitScrape ==
    /\ now = 0
    /\ lastWrite = NoWrite
    /\ table \in {{}} \cup {{Row(Orgnr, y, d, 0)} : y \in Years, d \in ApiPayloads}
    /\ CallInit /\ ScrapeInit /\ PipelineInit /\ PureInit

NextScrape ==
    \/ \E p \in Scrapers : ScrapePdfForYear(p)
    \/ \E p \in Scrapers : ApiStage(p)
    \/ \E p \in Scrapers : ApiUpdated(p)
    \/ \E p \in Scrapers : AltUrlStage(p)
    \/ \E p \in Scrapers : ServerActionStage(p)
    \/ \E p \in Scrapers : ParsePdfAndExtractAarsresultat(p)
    \/ \E p \in Scrapers : PdfParse(p)
    \/ \E p \in Scrapers : OcrStage(p)
    \/ \E p \in Scrapers : OcrUpdated(p)
    \/ \E p \in Scrapers : JournalStage(p)
    \/ \E p \in Scrapers : JournalUpdated(p)
    \/ \E p \in Scrapers : Respond(p)
    \/ \E p \in Scrapers : DbSelect(p)
    \/ \E p \in Scrapers : DbWrite(p)

SpecScrape == InitScrape /\ [][NextScrape]_vars

\* C1: when the call has returned, the temp directory holds no file
\* <orgnr>_<year>.pdf of the request.
TempPdfDeletedOnReturn ==
    \A p \in Requests : pc[p] = "done" => TempPdfPath(Orgnr, year[p]) \notin tempDir

\* C2: when scrapePdfForYear has returned without any figure, the store has a
\* row for (orgnr, year).
ZeroFigureYearHasRow ==
    \A p \in Requests :
       (pc[p] = "done" /\ ~AnyFigure(result[p].figures)) => RowsFor(table, Orgnr, year[p]) # {}

\* C3: when scrapePdfForYear has returned success with some figure, the store
\* has a row for (orgnr, year) whose figures are exactly the returned ones.
ReturnedFiguresArePersisted ==
    \A p \in Requests :
       (pc[p] = "done" /\ result[p].success) =>
          \E r \in RowsFor(table, Orgnr, year[p]) : r.data.figures = result[p].figures

\* C12: in every result scrapePdfForYear returns, success is true exactly when
\* aarsresultat, salgsinntekt or sumInntekter is non-null.
SuccessIffSomeFigure ==
    \A p \in Requests :
       pc[p] = "done" => (result[p].success <=> AnyFigure(result[p].figures))

\* A parsed PDF without any figure has been returned as a failure.
ReturnedParsedPdfWithoutFigure ==
    \E p \in Requests :
       pc[p] = "done" /\ result[p].message = "not_found" /\ ~result[p].success

\* C14: when the API payload held an aarsresultat of the requested year, the
\* call returns with the figure stored and without a fetch of the alternative
\* URL, a fetch of the server action or a parse of a PDF.
ApiFigureSkipsDocumentFetch ==
    \A p \in Requests :
       (pc[p] = "done" /\ trace[p].apiFigure) =>
          /\ trace[p].fetches = {}
          /\ \E r \in RowsFor(table, Orgnr, year[p]) :
                r.data.figures["aarsresultat"] # Null

\* The tags of a row whose figures come from the structured API.
ApiSourceTags == {"regnskap-api"}

\* C15: a row inserted for a figure of the API payload carries an API source
\* tag, and a row inserted for a figure of a downloaded document carries the
\* tag of the document scraper.
SourceTagNamesDiscoveringStrategy ==
    \A p \in Requests :
       (dbState[p] = "ok" /\ snap[p] = {}) =>
          \A r \in RowsFor(table, Orgnr, year[p]) :
             /\ pc[p] = "api_db" => r.data.source \in ApiSourceTags
             /\ pc[p] = "ocr_db" => r.data.source = "pdf-scraped"


(***************************************************************************)
(* The candidates of one organisation merged by year.                      *)
(***************************************************************************)
InitDedupe ==
    /\ StoreInit /\ CallInit /\ ScrapeInit /\ PipelineInit
    /\ reports \in SeqsUpTo(Candidates, MaxReports)
    /\ pdfLinks \in {<<>>} \cup SeqsUpTo(PdfLinks, MaxLinks)
    /\ mergedReports = <<>>
    /\ YearIdle /\ UrlIdle /\ ParseIdle /\ step = "input"

NextDedupe ==
    \/ DedupeReports
    \/ ExtractPdfLinksFromVirksomhetPage

SpecDedupe == InitDedupe /\ [][NextDedupe]_vars

\* The order of strength of the sources: the API is stronger than a link of
\* the page.
SourceRank(s) == IF s = "regnskap-api" THEN 2 ELSE 1

DocumentSet(r) == {r.documents[i] : i \in DOMAIN r.documents}

\* C7: the merged candidates have at most one candidate per year; for two
\* candidates of one year the merged candidate of that year has a source tag
\* no weaker than either and holds the documents of both, the earlier one not
\* being replaced by the later; and a PDF link merged into the candidate of its
\* year leaves the source tag and adds its document.
MergeKeepsStrongerSourceAndAllDocuments ==
    /\ step \in {"dedupeReports", "extractPdfLinks"} =>
          \A i, j \in DOMAIN mergedReports :
             mergedReports[i].year = mergedReports[j].year => i = j
    /\ step = "dedupeReports" =>
          \A i, j \in DOMAIN reports :
             (i < j /\ reports[i].year = reports[j].year /\ reports[i].year # 0) =>
                \E k \in DOMAIN mergedReports :
                   /\ mergedReports[k].year = reports[i].year
                   /\ SourceRank(mergedReports[k].source) >= SourceRank(reports[i].source)
                   /\ SourceRank(mergedReports[k].source) >= SourceRank(reports[j].source)
                   /\ DocumentSet(reports[i]) \cup DocumentSet(reports[j])
                         \subseteq DocumentSet(mergedReports[k])
    /\ step = "extractPdfLinks" =>
          \A i \in DOMAIN pdfLinks :
             (normalizeDocumentUrl(pdfLinks[i].url) # Null
                /\ isLikelyPdfUrl(normalizeDocumentUrl(pdfLinks[i].url))) =>
                \E k \in DOMAIN mergedReports :
                   /\ mergedReports[k].year = pdfLinks[i].year
                   /\ normalizeDocumentUrl(pdfLinks[i].url) \subseteq DocumentSet(mergedReports[k])
                   /\ (\E r \in {reports[n] : n \in DOMAIN reports} : r.year = pdfLinks[i].year)
                         => mergedReports[k].source = "regnskap-api"

(***************************************************************************)
(* The year of an upstream object on its way into the report store.        *)
(***************************************************************************)
InitYear ==
    /\ StoreInit /\ CallInit /\ ScrapeInit /\ PipelineInit
    /\ candidate \in UpstreamCandidates
    /\ requestedYear \in YearsToCheck
    /\ entryYear = Null
    /\ DedupeIdle /\ UrlIdle /\ ParseIdle /\ step = "input"

NextYear ==
    \/ ExtractFromRegnskapApi
    \/ NormalizeRegnskapResponse
    \/ ExtractYearFromStatement
    \/ StoreReport

SpecYear == InitYear /\ [][NextYear]_vars

\* C8: the year of every candidate and of every row of the store is an
\* integer from 1990 to the current year plus one.
YearWithinBounds ==
    /\ \A y \in entryYear :
          y.type = "number" /\ MIN_YEAR <= y.n /\ y.n <= CurrentYear + 1
    /\ \A r \in table : MIN_YEAR <= r.ar /\ r.ar <= CurrentYear + 1

(***************************************************************************)
(* The URLs of the documents of a report.                                  *)
(***************************************************************************)
InitUrl ==
    /\ StoreInit /\ CallInit /\ ScrapeInit /\ PipelineInit
    /\ rawDocuments \in SeqsUpTo(RawUrls, MaxDocuments)
    /\ documents = <<>>
    /\ DedupeIdle /\ YearIdle /\ ParseIdle /\ step = "input"

NextUrl ==
    \/ BuildDocumentsWithPdf
    \/ MapApiDocuments

SpecUrl == InitUrl /\ [][NextUrl]_vars

\* C9: normalizeDocumentUrl rejects the placeholders and makes every other
\* href absolute (a relative one by the base origin), and every URL of the
\* documents of a report is absolute and no placeholder.
DocumentUrlsAreValidated ==
    /\ normalizeDocumentUrl(Some(<<"/", "d", "o", "k", "/", "a", "b", "c", ".", "p", "d", "f">>)) = Some(BASE_DOMAIN \o <<"/", "d", "o", "k", "/", "a", "b", "c", ".", "p", "d", "f">>)
    /\ \A i \in DOMAIN rawDocuments :
          IF isPlaceholderUrl(rawDocuments[i])
          THEN normalizeDocumentUrl(rawDocuments[i]) = Null
          ELSE \E u \in normalizeDocumentUrl(rawDocuments[i]) : IsAbsoluteUrl(u)
    /\ step \in {"buildDocumentsWithPdf", "mapApiDocuments"} =>
          \A i \in DOMAIN documents :
             IsAbsoluteUrl(documents[i]) /\ ~isPlaceholderUrl(Some(documents[i]))

(***************************************************************************)
(* The numeral that follows the label 'Årsresultat'.                       *)
(***************************************************************************)
InitParse ==
    /\ StoreInit /\ CallInit /\ ScrapeInit /\ PipelineInit
    /\ numeral \in NamedNumerals \cup SeqsUpTo(NumeralAlphabet, MaxNumeralLen)
    /\ parsed = Null
    /\ DedupeIdle /\ YearIdle /\ UrlIdle /\ step = "input"

NextParse ==
    \/ ParseNumeral
    \/ ExtractAarsresultat

SpecParse == InitParse /\ [][NextParse]_vars

\* A numeral of digits in groups separated by blanks, periods or commas.
IsSeparatedNumeral(s) ==
    /\ s # <<>>
    /\ IsDigit(s[1]) /\ IsDigit(s[Len(s)])
    /\ \A i \in 1..Len(s) : IsDigit(s[i]) \/ s[i] \in {" ", ".", ","}

\* C10: a numeral of digits and group separators parses to the base-10 integer
\* of its digits, and such a numeral in parentheses to the negative of it.
NumeralParsing ==
    step \in {"parseNumeral", "extractAarsresultat"} =>
       /\ IsSeparatedNumeral(numeral) =>
             parsed = Some(DigitsValue(SelectSeq(numeral, IsDigit)))
       /\ (/\ Len(numeral) >= 3
           /\ numeral[1] = "(" /\ numeral[Len(numeral)] = ")"
           /\ IsSeparatedNumeral(SubSeq(numeral, 2, Len(numeral) - 1))) =>
             parsed = Some(0 - DigitsValue(SelectSeq(numeral, IsDigit)))

(***************************************************************************)
(* The figure extractor on texts of two lines.                             *)
(***************************************************************************)
InitFigure ==
    /\ StoreInit /\ CallInit /\ ScrapeInit /\ PureInit
    /\ pdfText \in PdfTexts
    /\ netResult = Null /\ phase = "input"
    /\ pdfBuffer = NoBuffer /\ retrieval = NoRetrieval
    /\ BatchIdle /\ ApiIdle /\ OcrIdle /\ FetcherIdle /\ StrategyIdle /\ BoundsIdle /\ TempIdle

NextFigure == ExtractFigure

SpecFigure == InitFigure /\ [][NextFigure]_vars

\* C11: for a text whose first line is the label, a separator and a grouped
\* numeral, the extractor returns the value of that numeral whatever the next
\* line holds; for a text without a label it returns null.
LabelledNumeralIsReturned ==
    phase = "extractAarsresultatFromPdfText" =>
       /\ pdfText.word \in LabelWords =>
             netResult = Some(DigitsValue(SelectSeq(pdfText.numeral, IsDigit)))
       /\ pdfText.word \in OtherWords => netResult = Null

(***************************************************************************)
(* The document retrievers on one response body.                           *)
(***************************************************************************)
InitRetrieve ==
    /\ StoreInit /\ CallInit /\ ScrapeInit /\ PureInit
    /\ pdfText = <<>> /\ netResult = Null /\ phase = "input"
    /\ pdfBuffer \in PdfBuffers
    /\ retrieval = NoRetrieval
    /\ BatchIdle /\ ApiIdle /\ OcrIdle /\ FetcherIdle /\ StrategyIdle /\ BoundsIdle /\ TempIdle

NextRetrieve ==
    \/ ParsePdfBuffer
    \/ DownloadAndParsePdfBuffer
    \/ DownloadAndParsePdf

SpecRetrieve == InitRetrieve /\ [][NextRetrieve]_vars

\* C13: a retriever writes the response to the temp directory or hands it to
\* the text extraction only if it holds '%PDF' and '%%EOF' and the bytes from
\* the one through the line end of the other are at least 1000; otherwise it
\* returns a failure, writes no temp file and extracts no text.
OnlyValidatedPdfIsRetrieved ==
    phase # "input" =>
       LET accepted == retrieval.written \/ retrieval.toParser
       IN /\ accepted =>
                /\ pdfBuffer.pdfStart # -1
                /\ pdfBuffer.eofPos # -1
                /\ pdfBuffer.eofPos + 6 - pdfBuffer.pdfStart >= 1000
          /\ ~accepted => retrieval.failure

(***************************************************************************)
(* main of the batch scraper over a list of organisations.                 *)
(***************************************************************************)
InitBatch ==
    /\ StoreInit /\ CallInit /\ ScrapeInit /\ PureInit
    /\ pdfText = <<>> /\ netResult = Null /\ phase = "input"
    /\ pdfBuffer = NoBuffer /\ retrieval = NoRetrieval
    /\ queue \in SeqsUpTo(Upstreams, MaxOrganisations)
    /\ cursor = 1
    /\ mainPc = "loop"
    /\ browser = "none"
    /\ outcome = [i \in 1..Len(queue) |-> "pending"]
    /\ attempted = {}
    /\ stored = {}
    /\ ApiIdle /\ OcrIdle /\ FetcherIdle /\ StrategyIdle /\ BoundsIdle /\ TempIdle

NextBatch ==
    \/ StartOrganisation
    \/ FetchFromRegnskapApi
    \/ LaunchForPdfLinks
    \/ PdfLinksPage
    \/ LaunchBrowser
    \/ RenderedPage
    \/ HttpFallback
    \/ StoreReports
    \/ FinishBatch

SpecBatch == InitBatch /\ [][NextBatch]_vars

\* C16: for an organisation whose API queries and detail page answer 404,
\* fetchAnnualReports returns an empty list and does not throw.
AbsenceGivesEmptyList ==
    (mainPc = "fetched" /\ queue[cursor] = "absent") => outcome[cursor] = "empty"

\* C18: a failure while one organisation is processed never halts the batch:
\* when main has ended, it has called fetchAnnualReports for every
\* organisation of the list, and it never ends before the end of the list.
FailureNeverHaltsBatch ==
    /\ mainPc \in {"finished", "halted"} => attempted = 1..Len(queue)
    /\ (mainPc = "loop" /\ cursor <= Len(queue)) => attempted = 1..(cursor - 1)

\* The first organisation failed (fetchAnnualReports threw, or the write of
\* its reports did) and the second one was fetched and stored.
FailedOrganisationThenStored ==
    /\ mainPc = "finished"
    /\ Len(queue) = 2
    /\ outcome[1] \in {"thrown", "reports"}
    /\ 1 \notin stored
    /\ 2 \in stored

\* C20: when fetchAnnualReports, with extractPdfLinksFromVirksomhetPage
\* inside it, has returned or thrown, and when it has gone over to the plain
\* HTTP fallback, no browser launched by the call is open.
BrowserReleasedOnExit ==
    mainPc \in {"fetched", "fallback", "loop", "finished"} => browser # "open"

\* fetchAnnualReports has thrown out of its fallback after its catch closed
\* the browser it had launched.
ThrownWithBrowserClosed ==
    /\ mainPc = "fetched"
    /\ outcome[cursor] = "thrown"
    /\ browser = "closed"

(***************************************************************************)
(* extractFromRegnskapApi over the answers of the API.                     *)
(***************************************************************************)
InitApi ==
    /\ StoreInit /\ CallInit /\ ScrapeInit /\ PureInit
    /\ pdfText = <<>> /\ netResult = Null /\ phase = "input"
    /\ pdfBuffer = NoBuffer /\ retrieval = NoRetrieval
    /\ BatchIdle /\ OcrIdle /\ FetcherIdle /\ StrategyIdle /\ BoundsIdle /\ TempIdle
    /\ yearJournalMap \in [YearsToCheck -> Opt(Journals)]
    /\ periodOf \in [Journals -> PeriodYears]
    /\ latestAnswer \in Opt(Journals)
    /\ yearAnswer \in [YearsToCheck -> Opt(Journals)]
    /\ apiPc = "website"
    /\ apiYear = CurrentYear
    /\ entries = <<>>
    /\ seenYearJournalPairs = {}
    /\ apiReports = <<>>

NextApi ==
    \/ WebsiteEntries
    \/ QueryWithoutYear
    \/ QueryYear
    \/ BuildApiReports

SpecApi == InitApi /\ [][NextApi]_vars

\* C17: a filing that the API echoes in answer to several requested years is
\* in the reports of extractFromRegnskapApi under at most one year: no two
\* returned reports carry the same journal number.
EchoedFilingUnderOneYear ==
    apiPc = "done" =>
        \A i, j \in DOMAIN apiReports :
            apiReports[i].journalnr = apiReports[j].journalnr => i = j

(***************************************************************************)
(* performOCR, called once for each year.                                  *)
(***************************************************************************)
InitOcr ==
    /\ StoreInit /\ CallInit /\ ScrapeInit /\ PureInit
    /\ pdfText = <<>> /\ netResult = Null /\ phase = "input"
    /\ pdfBuffer = NoBuffer /\ retrieval = NoRetrieval
    /\ BatchIdle /\ ApiIdle /\ FetcherIdle /\ StrategyIdle /\ BoundsIdle /\ TempIdle
    /\ pdfFiles \in SUBSET OcrYears
    /\ pngFiles = {}
    /\ ocrYear = 0
    /\ ocrPc = "idle"
    /\ ocrReturned = [y \in OcrYears |-> "pending"]

NextOcr ==
    \/ \E y \in OcrYears : PerformOCR(y)
    \/ ConvertToImage
    \/ CreateWorker
    \/ Recognize
    \/ CleanUpImage

SpecOcr == InitOcr /\ [][NextOcr]_vars

\* C19: when performOCR has returned for a year, with a text or with null,
\* the page image of that year is not in the temp directory.
PageImageDeletedOnReturn ==
    \A y \in OcrYears : ocrReturned[y] # "pending" => y \notin pngFiles

(***************************************************************************)
(* main of the company fetch, first run or resumed.                        *)
(***************************************************************************)
InitFetcher ==
    /\ StoreInit /\ CallInit /\ ScrapeInit /\ PureInit
    /\ pdfText = <<>> /\ netResult = Null /\ phase = "input"
    /\ pdfBuffer = NoBuffer /\ retrieval = NoRetrieval
    /\ BatchIdle /\ ApiIdle /\ OcrIdle /\ StrategyIdle /\ BoundsIdle /\ TempIdle
    /\ upstream \in {"up", "down", "flaky"}
    /\ updates \in {<<>>, Enheter}
    /\ orgFile \in {Null, Some(<<>>), Some(Enheter)}
    /\ companiesFile \in Opt(SUBSET Orgnumre)
    /\ fPc = "main"
    /\ organisasjonsnumre = <<>>
    /\ page = 0 /\ retries = 0
    /\ loaded = {} /\ companies = {} /\ todo = <<>>
    /\ batchStart = 0 /\ issued = 0
    /\ sinceLast = -1
    /\ requestTick = FALSE

NextFetcher ==
    \/ Main
    \/ FetchOppdateringer
    \/ AfterOrgnumre
    \/ StartFetchEnhet
    \/ AwaitBatch
    \/ SaveAll
    \/ FetchPaginated
    \/ SavePaginated
    \/ DownloadBulk

SpecFetcher == InitFetcher /\ [][NextFetcher]_vars

\* The event loop runs the fetch on as long as it has a step to take.
SpecFetcherFair == SpecFetcher /\ WF_vars(NextFetcher)

\* C21: at least RATE_LIMIT_DELAY elapses between the starts of any two
\* consecutive requests of one BrregFetcher.
DelayBetweenRequests ==
    [][(requestTick' # requestTick /\ sinceLast # -1)
          => sinceLast >= RATE_LIMIT_DELAY]_vars

\* C22: while the upstream keeps failing with timeouts or 5xx answers, each
\* fetch loop (fetchAllOrganisasjonsnumre, fetchAllCompaniesPaginated) is
\* left after finitely many attempts.
FetchLoopsTerminate ==
    (upstream = "down" /\ fPc \in {"oppdateringer", "paginated"})
        ~> (fPc \notin {"oppdateringer", "paginated"})

\* C23: every company stored in companies.json is still in it after each
\* later write of the file.
SavedCompaniesAreKept ==
    [][\A before \in companiesFile : \A after \in companiesFile' :
          before \subseteq after]_vars

\* C24: extractAarsresultatFromPdfText never returns a value of magnitude 100
\* or less, on the match of a pattern over the whole text included.
ReturnedFigureIsPlausible ==
    phase = "extractAarsresultatFromPdfText" =>
        \A v \in netResult : v > 100 \/ v < 0 - 100

(***************************************************************************)
(* extractSalgsinntektFromPdfText on texts of three lines.                 *)
(***************************************************************************)
InitRevenue ==
    /\ StoreInit /\ CallInit /\ ScrapeInit /\ PureInit
    /\ pdfText \in RevenueTexts
    /\ netResult = Null /\ phase = "input"
    /\ pdfBuffer = NoBuffer /\ retrieval = NoRetrieval
    /\ BatchIdle /\ ApiIdle /\ OcrIdle /\ FetcherIdle /\ StrategyIdle /\ BoundsIdle /\ TempIdle

NextRevenue == ExtractSalgsinntekt

SpecRevenue == InitRevenue /\ [][NextRevenue]_vars

\* C25: the number returned for a text with a label line is that of the
\* label line when it has one above the threshold, else one of a later
\* line, and never the number of the line before the label line.
NumberNotFromLineBefore ==
    (phase = "extractSalgsinntektFromPdfText" /\ pdfText.word \in RevenueLabels) =>
        /\ netResult # Null => netResult # LineNumber(pdfText.before)
        /\ AboveThousandValue(FirstNumeralCapture(pdfText.tail)) # Null
              => netResult = LineNumber(pdfText.tail)

(***************************************************************************)
(* parsePdfAndExtractAarsresultat on one response body, with performOCR.   *)
(***************************************************************************)
InitTextLayer ==
    /\ StoreInit /\ CallInit /\ ScrapeInit /\ PureInit
    /\ pdfText = <<>> /\ netResult = Null /\ phase = "input"
    /\ pdfBuffer \in {b \in PdfBuffers : b.length > MIN_PDF_SIZE}
    /\ retrieval = NoRetrieval
    /\ BatchIdle /\ ApiIdle /\ FetcherIdle /\ StrategyIdle /\ BoundsIdle /\ TempIdle
    /\ pdfFiles = {}
    /\ pngFiles = {}
    /\ ocrYear = 0
    /\ ocrPc = "idle"
    /\ ocrReturned = [y \in OcrYears |-> "pending"]

NextTextLayer ==
    \/ ParsePdfBuffer
    \/ PdfTextLayer
    \/ ConvertToImage
    \/ CreateWorker
    \/ Recognize
    \/ CleanUpImage

SpecTextLayer == InitTextLayer /\ [][NextTextLayer]_vars

\* C26: performOCR is invoked exactly when the text layer has fewer than 50
\* characters and the validated document more than 10,000 bytes; it is not
\* invoked where no text layer was extracted.
OcrExactlyOnShortTextOfLargePdf ==
    /\ phase \in {"performOCR", "tooShort", "extractors"} =>
          (ocrYear # 0 <=> (Len(pdfText) < 50 /\ PdfDataLength(pdfBuffer) > 10000))
    /\ phase \in {"input", "parsePdfAndExtractAarsresultat", "parseError"} => ocrYear = 0

\* performOCR was called for a text layer of 49 characters of a document of
\* more than 10,000 bytes.
OcrCalledForScannedPdf ==
    /\ phase = "performOCR"
    /\ ocrYear = CurrentYear
    /\ ocrPc # "idle"
    /\ Len(pdfText) = 49
    /\ PdfDataLength(pdfBuffer) > 10000

(***************************************************************************)
(* fetchAnnualReports of an organisation without reports in the API.       *)
(***************************************************************************)
InitStrategies ==
    /\ StoreInit /\ CallInit /\ ScrapeInit /\ PureInit
    /\ pdfText = <<>> /\ netResult = Null /\ phase = "input"
    /\ pdfBuffer = NoBuffer /\ retrieval = NoRetrieval
    /\ BatchIdle /\ ApiIdle /\ OcrIdle /\ FetcherIdle /\ BoundsIdle /\ TempIdle
    /\ renderedFinds \in SUBSET ({"puppeteer-js"} \cup HtmlStrategies)
    /\ staticFinds \in SUBSET HtmlStrategies
    /\ strategyPc = "launch"
    /\ tried = <<>>
    /\ returnedFrom = Null

NextStrategies ==
    \/ LaunchPuppeteer
    \/ EvaluatePdfLinks
    \/ RenderedNextData
    \/ RenderedDom
    \/ RenderedBodyText
    \/ AxiosNextData
    \/ AxiosDom
    \/ AxiosBodyText

SpecStrategies == InitStrategies /\ [][NextStrategies]_vars

\* The priority the list of strategies gives to the four that follow the
\* API: embedded payload, static DOM, rendered DOM, body-text heuristic.
StatedPriority ==
    [s \in {"puppeteer-js"} \cup HtmlStrategies |->
        CASE s = "nextData" -> 2
          [] s = "dom" -> 3
          [] s = "puppeteer-js" -> 4
          [] OTHER -> 5]

\* C27: with no candidates from the API the strategies are invoked in
\* descending priority (embedded payload, static DOM, rendered DOM, body
\* text), and the returned candidates are those of the strategy invoked
\* last, which found some.
StrategiesInStatedPriority ==
    /\ \A i, j \in 1..Len(tried) :
          i < j => StatedPriority[tried[i]] < StatedPriority[tried[j]]
    /\ \A s \in returnedFrom : tried[Len(tried)] = s

(***************************************************************************)
(* fetchRegnskapApiEntries over the answers of the Enhetsregisteret.       *)
(***************************************************************************)
InitBounds ==
    /\ StoreInit /\ CallInit /\ ScrapeInit /\ PureInit
    /\ pdfText = <<>> /\ netResult = Null /\ phase = "input"
    /\ pdfBuffer = NoBuffer /\ retrieval = NoRetrieval
    /\ BatchIdle /\ ApiIdle /\ OcrIdle /\ FetcherIdle /\ StrategyIdle /\ TempIdle
    /\ metadata \in Opt(Metadatas)
    /\ firstFiling \in FirstFilings
    /\ maxResults \in {2, 10, 999}
    /\ minYear = 0 /\ maxYear = 0 /\ loopYear = 0
    /\ queried = <<>>
    /\ collected = 0
    /\ boundsPc = "deriveYearBounds"

NextBounds ==
    \/ DeriveYearBounds
    \/ FetchRegnskapForYear
    \/ ReturnEntries

SpecBounds == InitBounds /\ [][NextBounds]_vars

RawRecordIsOfReportYear ==
    apiPc = "done" =>
        \A i \in DOMAIN apiReports :
            periodOf[apiReports[i].journalnr] # 0 =>
                apiReports[i].year = periodOf[apiReports[i].journalnr]

(***************************************************************************)
(* Two concurrent requests for the same organisation and year.             *)
(***************************************************************************)
InitTemp ==
    /\ StoreInit /\ CallInit /\ ScrapeInit /\ PureInit
    /\ pdfText = <<>> /\ netResult = Null /\ phase = "input"
    /\ pdfBuffer = NoBuffer /\ retrieval = NoRetrieval
    /\ BatchIdle /\ ApiIdle /\ OcrIdle /\ FetcherIdle /\ StrategyIdle /\ BoundsIdle
    /\ tempPdf = Null
    /\ tempImage = Null
    /\ parsePc = [p \in Requests |-> "response"]
    /\ gsInput = [p \in Requests |-> "none"]
    /\ ocrInput = [p \in Requests |-> "none"]

NextTemp ==
    \/ \E p \in Requests : WriteTempPdf(p)
    \/ \E p \in Requests : AfterPdfParse(p)
    \/ \E p \in Requests : Ghostscript(p)
    \/ \E p \in Requests : CreateTesseractWorker(p)
    \/ \E p \in Requests : RecognizeImage(p)
    \/ \E p \in Requests : UnlinkImage(p)
    \/ \E p \in Requests : AfterOcrUpdate(p)

SpecTemp == InitTemp /\ [][NextTemp]_vars

\* C30: the PDF that Ghostscript of a call reads and the page image that
\* worker.recognize of a call reads are those the call wrote itself: they
\* exist and hold no bytes of the other call.
CallsReadTheirOwnFiles ==
    \A p \in Requests : gsInput[p] \in {"none", p} /\ ocrInput[p] \in {"none", p}


====
